---- MODULE Spec2Model ----
(***************************************************************************)
(* Installation orchestration engine of claude-code-installer.             *)
(*                                                                         *)
(* Text is a sequence of one-character strings, so that length, prefix,    *)
(* splitting and case folding are computed the way the Go code computes    *)
(* them.  A Go error is a record: isNil, the fragments of its message in   *)
(* order, and the message of the error it wraps ("" when it wraps none).   *)
(***************************************************************************)
EXTENDS Integers, Sequences, FiniteSets, TLC

VARIABLES
    \* ---- Installer.pollForCommand (internal/installer/installer.go)
    pollPc,        \* "loop" (about to test attempt < maxAttempts), "wait" (parked in select), "done"
    pollCmd,       \* cmdName
    pollMax,       \* maxAttempts
    pollAttempt,   \* attempt
    pollRet,       \* the returned error, NoReturn before the return
    ctxErr,        \* i.ctx.Err(): "none", "canceled", "deadline"
    resolvable,    \* exec.LookPath(cmdName) succeeds
    pollLookups,   \* history: number of exec.LookPath calls made
    pollTicks,     \* history: number of one-second ticks waited in full
    cancelPhase,   \* history: where the run was when the signal fired
    ticksAtFire,   \* history: pollTicks when the signal fired
    lookupsAtFire, \* history: pollLookups when the signal fired
    everResolvable, \* history: the command was resolvable at some point of the run
    \* ---- httputil.NewTrustedCheckRedirect (the redirect gate)
    gatePc,        \* "input", "checked", or "idle" under the other specifications
    gateTrusted,   \* trustedHosts, the list the gate was built with
    gateReq,       \* req.URL: [Scheme, Host |-> [hostname, port]]
    gateVia,       \* len(via)
    gateRet,       \* the error returned by the gate
    \* ---- findChecksumInSHASUMS
    sumsPc,        \* "input", "done", or "idle"
    sumsLines,     \* the manifest as it was written: one record per line
    sumsContent,   \* shasumsContent: the manifest text
    sumsFilename,  \* filename
    sumsRet,       \* [hash, err]: the two results
    \* ---- verifyFileChecksum
    filePc,        \* "input", "done", or "idle"
    fileState,     \* the file at filePath: "missing", "unreadable" or "ok"
    fileContent,   \* its bytes
    fileExpected,  \* expectedHash
    fileRet,       \* the error returned
    \* ---- updater.compareVersions
    verPc,         \* "input", "done", or "idle"
    verASegs,      \* the dot-separated segments a was written with
    verBSegs,      \* the dot-separated segments b was written with
    verA,          \* a
    verB,          \* b
    verRet,        \* the int returned
    \* ---- Installer.InstallNodeJS, InstallGit, InstallClaudeCode
    instOp,        \* the operation invoked: "nodejs", "git", "claudecode", or "idle"
    instPc,        \* where the operation is
    instRet,       \* the error it returned
    instCtx,       \* i.ctx.Err() of the Installer's context
    events,        \* the InstallProgress values handed to onProgress, in order
    onPath,        \* the commands exec.LookPath resolves in the process PATH
    httpLog,       \* the HTTP requests issued, in order
    execLog,       \* the package managers and installers executed, in order
    pathLog,       \* the pathutil calls made: RefreshPath, AddToPath and its outcome
    dlAttempt,     \* attempt of downloadFileWithRetry
    claudeAttempt, \* attempt of the polling loop of InstallClaudeCode
    dest,          \* the download at destPath: [file, content]
    hist,          \* history: what the operation found and tried
    \* ---- Installer.downloadFileWithRetry and Installer.downloadFile
    dlPc,          \* "loop" (about to call downloadFile), "backoff" (parked in select), "done", or "idle"
    dlTry,         \* attempt
    dlCtx,         \* i.ctx.Err()
    dlRet,         \* the error returned by downloadFileWithRetry
    dlLast,        \* lastErr
    dlFile,        \* the file at destPath: [exists, size, open (a handle is still held)]
    dlCalls,       \* history: one record per downloadFile call: ctx.Err() at the call, destPath, the response, the error, the file after
    dlEvents,      \* the InstallProgress values emitted, in order
    dlWaits,       \* history: the seconds of the backoff waits that ran to completion, in order
    dlFire,        \* history: where the run was when the signal fired
    \* ---- the HTTP requests of a direct download (getGitDownloadURL, downloadFile, fetchTextContent)
    netPc,         \* "resolve", "download", "checksum", "done", or "idle"
    netOp,         \* "nodejs" or "git"
    netRelease,    \* the assets of the release the GitHub API answers with
    netApi,        \* history: what the API request met, "none" before it
    netURL,        \* downloadURL, a raw URL, <<>> before it is known
    netTry,        \* attempt of downloadFileWithRetry
    netCalls,      \* history: the client.Do calls made: phase, trusted hosts, redirects met, requests issued, error
    netRet,        \* the error the direct download returned
    \* ---- Installer.emitProgress under concurrent callers
    emPc,          \* per caller: "call" (before mu.Lock), "sink" (inside onProgress), "unlock" (before the deferred Unlock), "done", or "idle"
    emDone,        \* per caller: the emitProgress calls that returned
    emMu,          \* i.mu: the caller holding it, 0 when unlocked
    emSink,        \* i.onProgress: "nil" or "set"
    emDelivered,   \* history: how often the sink received each event
    \* ---- the install methods of App called concurrently, and pathutil.AddToPath
    paOp,          \* per invocation: the method of App that was called
    paPc,          \* per invocation: "call" (between AddToPath calls), "write" (inside AddToPath, Path read and not yet written), "done", or "idle"
    paQueue,       \* per invocation: the directories its installers have yet to add
    paRead,        \* per invocation: currentPath
    pathStore,     \* the Path value of the registry: the directories, in order
    \* ---- Installer.CheckUpdate
    chkPc,         \* "call", "done", or "idle"
    chkFail,       \* what fails during the call: "none", "findClaude", "version", "findNpm" or "view"
    chkInstalled,  \* what "claude --version" prints: [lead, version, trail]
    chkLatest,     \* what "npm view ... version" prints: [lead, version, trail]
    chkRet,        \* what CheckUpdate returned: [info, err]
    \* ---- the artifact of a direct download by architecture
    archGOARCH,     \* runtime.GOARCH
    archRelease,    \* release.Assets as the API lists them
    archMsi,        \* msiFilename of installNodeViaMSI, "" before it is built
    archGit,        \* what the loops of getGitDownloadURL selected
    \* ---- verifyExecutable (installer.go)
    vfyGOOS,        \* runtime.GOOS
    vfyExtra,       \* extraPaths
    vfyRuns,        \* what cmd.Output() gives for the k-th of name and extraPaths
    vfyPc,          \* "call", "loop", "done"
    vfyPaths,       \* paths
    vfyTried,       \* the candidates executed so far, in order
    vfyEvents,      \* what the sink received
    vfyRet,         \* the error returned
    \* ---- AddToPath (pathutil)
    addStore,       \* the Path value of the user's registry key
    addDir,         \* dir
    addCalls,       \* history: one record per AddToPath call
    \* ---- App.InstallAll (app.go)
    appPc,         \* "start" (about to start an installer), "wait" (inside it), "done", or "idle"
    appStep,       \* the position of that installer in the order of InstallAll
    appRet,        \* the error returned by InstallAll
    appStarted,    \* history: the installers started, in order
    appResults     \* history: the error each of them returned, in order

pollVars == <<pollPc, pollCmd, pollMax, pollAttempt, pollRet, ctxErr, resolvable,
              pollLookups, pollTicks, cancelPhase, ticksAtFire, lookupsAtFire,
              everResolvable>>

gateVars == <<gatePc, gateTrusted, gateReq, gateVia, gateRet>>

sumsVars == <<sumsPc, sumsLines, sumsContent, sumsFilename, sumsRet>>

fileVars == <<filePc, fileState, fileContent, fileExpected, fileRet>>

verVars == <<verPc, verASegs, verBSegs, verA, verB, verRet>>

instVars == <<instOp, instPc, instRet, instCtx, events, onPath, httpLog, execLog,
              pathLog, dlAttempt, claudeAttempt, dest, hist>>

dlVars == <<dlPc, dlTry, dlCtx, dlRet, dlLast, dlFile, dlCalls, dlEvents, dlWaits,
            dlFire>>

appVars == <<appPc, appStep, appRet, appStarted, appResults>>

netVars == <<netPc, netOp, netRelease, netApi, netURL, netTry, netCalls, netRet>>

emitVars == <<emPc, emDone, emMu, emSink, emDelivered>>

pathVars == <<paOp, paPc, paQueue, paRead, pathStore>>

chkVars == <<chkPc, chkFail, chkInstalled, chkLatest, chkRet>>

archVars == <<archGOARCH, archRelease, archMsi, archGit>>

vfyVars == <<vfyGOOS, vfyExtra, vfyRuns, vfyPc, vfyPaths, vfyTried, vfyEvents, vfyRet>>

addVars == <<addStore, addDir, addCalls>>

vars == <<pollVars, gateVars, sumsVars, fileVars, verVars, instVars, dlVars, appVars,
    netVars,
    emitVars,
    pathVars,
    chkVars,
    archVars,
    vfyVars,
    addVars>>

pollOthers == <<gateVars, sumsVars, fileVars, verVars, instVars, dlVars, appVars,
    netVars,
    emitVars,
    pathVars,
    chkVars,
    archVars,
    vfyVars,
    addVars>>

gateOthers == <<pollVars, sumsVars, fileVars, verVars, instVars, dlVars, appVars,
    netVars,
    emitVars,
    pathVars,
    chkVars,
    archVars,
    vfyVars,
    addVars>>

sumsOthers == <<pollVars, gateVars, fileVars, verVars, instVars, dlVars, appVars,
    netVars,
    emitVars,
    pathVars,
    chkVars,
    archVars,
    vfyVars,
    addVars>>

fileOthers == <<pollVars, gateVars, sumsVars, verVars, instVars, dlVars, appVars,
    netVars,
    emitVars,
    pathVars,
    chkVars,
    archVars,
    vfyVars,
    addVars>>

verOthers == <<pollVars, gateVars, sumsVars, fileVars, instVars, dlVars, appVars,
    netVars,
    emitVars,
    pathVars,
    chkVars,
    archVars,
    vfyVars,
    addVars>>

instOthers == <<pollVars, gateVars, sumsVars, fileVars, verVars, dlVars, appVars,
    netVars,
    emitVars,
    pathVars,
    chkVars,
    archVars,
    vfyVars,
    addVars>>

dlOthers == <<pollVars, gateVars, sumsVars, fileVars, verVars, instVars, appVars,
    netVars,
    emitVars,
    pathVars,
    chkVars,
    archVars,
    vfyVars,
    addVars>>

netOthers == <<pollVars,
    gateVars,
    sumsVars,
    fileVars,
    verVars,
    instVars,
    dlVars,
    appVars,
    emitVars,
    pathVars,
    chkVars,
    archVars,
    vfyVars,
    addVars>>

emitOthers == <<pollVars,
    gateVars,
    sumsVars,
    fileVars,
    verVars,
    instVars,
    dlVars,
    appVars,
    netVars,
    pathVars,
    chkVars,
    archVars,
    vfyVars,
    addVars>>

pathOthers == <<pollVars,
    gateVars,
    sumsVars,
    fileVars,
    verVars,
    instVars,
    dlVars,
    appVars,
    netVars,
    emitVars,
    chkVars,
    archVars,
    vfyVars,
    addVars>>

chkOthers == <<pollVars,
    gateVars,
    sumsVars,
    fileVars,
    verVars,
    instVars,
    dlVars,
    appVars,
    netVars,
    emitVars,
    pathVars,
    archVars,
    vfyVars,
    addVars>>

archOthers == <<pollVars,
    gateVars,
    sumsVars,
    fileVars,
    verVars,
    instVars,
    dlVars,
    appVars,
    netVars,
    emitVars,
    pathVars,
    chkVars,
    vfyVars,
    addVars>>

vfyOthers == <<pollVars,
    gateVars,
    sumsVars,
    fileVars,
    verVars,
    instVars,
    dlVars,
    appVars,
    netVars,
    emitVars,
    pathVars,
    chkVars,
    archVars,
    addVars>>

addOthers == <<pollVars,
    gateVars,
    sumsVars,
    fileVars,
    verVars,
    instVars,
    dlVars,
    appVars,
    netVars,
    emitVars,
    pathVars,
    chkVars,
    archVars,
    vfyVars>>

\* What InstallAll leaves alone between two of its own steps, and what it
\* never touches.
appOthers == <<pollVars, gateVars, sumsVars, fileVars, verVars, dlVars,
    netVars,
    emitVars,
    pathVars,
    chkVars,
    archVars,
    vfyVars,
    addVars>>

----------------------------------------------------------------------------
(* Go errors *)

Nil == [isNil |-> TRUE, text |-> <<>>, wraps |-> ""]

NoReturn == [isNil |-> FALSE, text |-> <<"(not returned)">>, wraps |-> ""]

Errorf(fragments, cause) == [isNil |-> FALSE, text |-> fragments, wraps |-> cause]

CtxErrText(e) ==
    IF e = "canceled" THEN "context canceled"
    ELSE IF e = "deadline" THEN "context deadline exceeded"
    ELSE ""

Range(s) == {s[k] : k \in DOMAIN s}

----------------------------------------------------------------------------
(* Text: the functions of package strings the code uses *)

Min(S) == CHOOSE x \in S : \A y \in S : x <= y

Max(S) == CHOOSE x \in S : \A y \in S : x >= y

\* n copies of the character c
Rep(c, n) == [k \in 1..n |-> c]

\* unicode.IsSpace, on the characters the model writes
IsSpace(c) == c \in {" ", "\t", "\r", "\n"}

\* the n-th smallest member of a set of numbers
Nth(S, n) == CHOOSE x \in S : Cardinality({y \in S : y < x}) = n - 1

\* strings.Split(s, sep) for a one-character separator: the pieces between
\* consecutive separators, one more than there are separators
Split(s, sep) ==
    LET at == {k \in DOMAIN s : s[k] = sep}
        lo(n) == IF n = 1 THEN 1 ELSE Nth(at, n - 1) + 1
        hi(n) == IF n = Cardinality(at) + 1 THEN Len(s) ELSE Nth(at, n) - 1
    IN  [n \in 1..(Cardinality(at) + 1) |-> SubSeq(s, lo(n), hi(n))]

\* strings.TrimSpace
TrimSpace(s) ==
    LET solid == {k \in DOMAIN s : ~IsSpace(s[k])}
    IN  IF solid = {} THEN <<>> ELSE SubSeq(s, Min(solid), Max(solid))

\* strings.Fields: the maximal runs of non-space characters
Fields(s) ==
    LET first == {k \in DOMAIN s : ~IsSpace(s[k]) /\ (k = 1 \/ IsSpace(s[k - 1]))}
        last  == {k \in DOMAIN s : ~IsSpace(s[k]) /\ (k = Len(s) \/ IsSpace(s[k + 1]))}
    IN  [n \in 1..Cardinality(first) |-> SubSeq(s, Nth(first, n), Nth(last, n))]

UpperLetters == <<"A", "B", "C", "D", "E", "F", "G", "H", "I", "J", "K", "L", "M",
                  "N", "O", "P", "Q", "R", "S", "T", "U", "V", "W", "X", "Y", "Z">>

LowerLetters == <<"a", "b", "c", "d", "e", "f", "g", "h", "i", "j", "k", "l", "m",
                  "n", "o", "p", "q", "r", "s", "t", "u", "v", "w", "x", "y", "z">>

\* unicode.ToLower, on ASCII
ToLowerChar(c) ==
    IF \E k \in 1..26 : UpperLetters[k] = c
    THEN LowerLetters[CHOOSE k \in 1..26 : UpperLetters[k] = c]
    ELSE c

\* A byte-for-byte comparison in place of the case-folding one.
EqualExact(a, b) == a = b

\* strings.EqualFold, on ASCII: equal under simple case folding
EqualFold(a, b) ==
    /\ Len(a) = Len(b)
    /\ \A k \in DOMAIN a : ToLowerChar(a[k]) = ToLowerChar(b[k])

\* A TrimPrefix that removes nothing.
TrimPrefixNone(s, c) == s

\* strings.TrimPrefix(s, c) for a one-character prefix
TrimPrefix(s, c) == IF Len(s) >= 1 /\ s[1] = c THEN Tail(s) ELSE s

----------------------------------------------------------------------------
(* Installer.pollForCommand *)

MaxAttempts == 3

Commands == {"node", "git"}

GateIdle ==
    /\ gatePc = "idle"
    /\ gateTrusted = <<>>
    /\ gateReq = [Scheme |-> "", Host |-> [hostname |-> "", port |-> ""]]
    /\ gateVia = 0
    /\ gateRet = NoReturn

NoHistory ==
    [existing |-> "unknown", winget |-> "unknown", wingetInstall |-> "none",
     wingetVerify |-> "none", download |-> FALSE, downloaded |-> FALSE,
     blindSleeps |-> 0,
     checksum |-> [tried |-> FALSE, fetched |-> FALSE, lines |-> <<>>]]

\* No file at destPath.
NoFile == [exists |-> FALSE, size |-> 0, open |-> FALSE]

\* Nothing downloaded yet.
NoDownload == [file |-> NoFile, content |-> <<>>]

NetIdle ==
    /\ netPc = "idle"
    /\ netOp = "idle"
    /\ netRelease = <<>>
    /\ netApi = "none"
    /\ netURL = <<>>
    /\ netTry = 0
    /\ netCalls = {}
    /\ netRet = NoReturn

EmitIdle ==
    /\ emPc = <<>>
    /\ emDone = <<>>
    /\ emMu = 0
    /\ emSink = "nil"
    /\ emDelivered = <<>>

PathIdle ==
    /\ paOp = <<>>
    /\ paPc = <<>>
    /\ paQueue = <<>>
    /\ paRead = <<>>
    /\ pathStore = <<>>

NoOutput == [lead |-> <<>>, version |-> <<>>, trail |-> <<>>]

\* A nil *ClaudeCodeUpdateInfo
NoInfo == [isNil |-> TRUE, Available |-> FALSE, CurrentVersion |-> <<>>,
           LatestVersion |-> <<>>]

ChkIdle ==
    /\ chkPc = "idle"
    /\ chkFail = "none"
    /\ chkInstalled = NoOutput
    /\ chkLatest = NoOutput
    /\ chkRet = [info |-> NoInfo, err |-> NoReturn]

\* No asset selected yet.
NoPick == [done |-> FALSE, found |-> FALSE, name |-> <<>>]

ArchIdle ==
    /\ archGOARCH = "amd64"
    /\ archRelease = <<>>
    /\ archMsi = ""
    /\ archGit = NoPick

VfyIdle ==
    /\ vfyGOOS = "windows"
    /\ vfyExtra = <<>>
    /\ vfyRuns = <<>>
    /\ vfyPc = "idle"
    /\ vfyPaths = <<>>
    /\ vfyTried = <<>>
    /\ vfyEvents = <<>>
    /\ vfyRet = NoReturn

AddIdle ==
    /\ addStore = <<>>
    /\ addDir = <<>>
    /\ addCalls = <<>>

AppIdle ==
    /\ appPc = "idle"
    /\ appStep = 0
    /\ appRet = NoReturn
    /\ appStarted = <<>>
    /\ appResults = <<>>

InstIdle ==
    /\ instOp = "idle"
    /\ instPc = "idle"
    /\ instRet = NoReturn
    /\ instCtx = "none"
    /\ events = <<>>
    /\ onPath = {}
    /\ httpLog = <<>>
    /\ execLog = <<>>
    /\ pathLog = <<>>
    /\ dlAttempt = 0
    /\ claudeAttempt = 0
    /\ dest = NoDownload
    /\ hist = NoHistory

NeverFired == [phase |-> "never", calls |-> 0, waits |-> 0]

DlIdle ==
    /\ dlPc = "idle"
    /\ dlTry = 0
    /\ dlCtx = "none"
    /\ dlRet = NoReturn
    /\ dlLast = Nil
    /\ dlFile = NoFile
    /\ dlCalls = <<>>
    /\ dlEvents = <<>>
    /\ dlWaits = <<>>
    /\ dlFire = NeverFired

VerIdle ==
    /\ verPc = "idle"
    /\ verASegs = <<>>
    /\ verBSegs = <<>>
    /\ verA = <<>>
    /\ verB = <<>>
    /\ verRet = 0

FileIdle ==
    /\ filePc = "idle"
    /\ fileState = "missing"
    /\ fileContent = <<>>
    /\ fileExpected = <<>>
    /\ fileRet = NoReturn

SumsIdle ==
    /\ sumsPc = "idle"
    /\ sumsLines = <<>>
    /\ sumsContent = <<>>
    /\ sumsFilename = <<>>
    /\ sumsRet = [hash |-> <<>>, err |-> NoReturn]

PollIdle ==
    /\ pollPc = "idle"
    /\ pollCmd = ""
    /\ pollMax = 0
    /\ pollAttempt = 0
    /\ pollRet = NoReturn
    /\ ctxErr = "none"
    /\ resolvable = FALSE
    /\ pollLookups = 0
    /\ pollTicks = 0
    /\ cancelPhase = "never"
    /\ ticksAtFire = 0
    /\ lookupsAtFire = 0
    /\ everResolvable = FALSE

PollInit ==
    /\ InstIdle
    /\ DlIdle
    /\ AddIdle
    /\ VfyIdle
    /\ ArchIdle
    /\ ChkIdle
    /\ PathIdle
    /\ EmitIdle
    /\ NetIdle
    /\ AppIdle
    /\ VerIdle
    /\ GateIdle
    /\ SumsIdle
    /\ FileIdle
    /\ pollPc = "loop"
    /\ pollCmd \in Commands
    /\ pollMax \in 0..MaxAttempts
    /\ pollAttempt = 0
    /\ pollRet = NoReturn
    /\ ctxErr \in {"none", "canceled", "deadline"}
    /\ resolvable \in BOOLEAN
    /\ pollLookups = 0
    /\ pollTicks = 0
    /\ cancelPhase = IF ctxErr = "none" THEN "never" ELSE "entry"
    /\ ticksAtFire = 0
    /\ lookupsAtFire = 0
    /\ everResolvable = resolvable

\* The value returned when the loop ends without the command resolving.
PollExhausted(cmdName) == Nil

\* The value returned by the ctx.Done() case of the select.
PollCancelled(err) == Errorf(<<"installation cancelled: ", CtxErrText(err)>>, CtxErrText(err))

\* An uninterruptible time.Sleep(1 * time.Second) in place of the select.
SelectCaseSleep(err) == "tick"

\* The case the select takes: a closed ctx.Done() is ready at once, the timer
\* made by time.After(1 * time.Second) for this select only a second later.
SelectCase(err) == IF err # "none" THEN "done" ELSE "tick"

\* A loop test that admits one pass more.
PollLoopTestInclusive(attempt, maxAttempts) == attempt <= maxAttempts

\* attempt < maxAttempts
PollLoopTest(attempt, maxAttempts) == attempt < maxAttempts

\* One pass from the loop test to the select: attempt < maxAttempts, then
\* exec.LookPath; a hit returns nil, a miss parks the goroutine in the select.
PollIterate ==
    /\ pollPc = "loop"
    /\ IF PollLoopTest(pollAttempt, pollMax)
       THEN /\ pollLookups' = pollLookups + 1
            /\ IF resolvable
               THEN /\ pollPc' = "done"
                    /\ pollRet' = Nil
               ELSE /\ pollPc' = "wait"
                    /\ pollRet' = pollRet
       ELSE /\ pollPc' = "done"
            /\ pollRet' = PollExhausted(pollCmd)
            /\ pollLookups' = pollLookups
    /\ UNCHANGED <<pollCmd, pollMax, pollAttempt, ctxErr, resolvable, pollTicks,
                   cancelPhase, ticksAtFire, lookupsAtFire, everResolvable>>
    /\ UNCHANGED pollOthers

\* select: case <-i.ctx.Done().
PollSelectDone ==
    /\ pollPc = "wait"
    /\ SelectCase(ctxErr) = "done"
    /\ pollPc' = "done"
    /\ pollRet' = PollCancelled(ctxErr)
    /\ UNCHANGED <<pollCmd, pollMax, pollAttempt, ctxErr, resolvable, pollLookups,
                   pollTicks, cancelPhase, ticksAtFire, lookupsAtFire, everResolvable>>
    /\ UNCHANGED pollOthers

\* select: case <-time.After(1 * time.Second), then attempt++.
PollSelectTick ==
    /\ pollPc = "wait"
    /\ SelectCase(ctxErr) = "tick"
    /\ pollPc' = "loop"
    /\ pollAttempt' = pollAttempt + 1
    /\ pollTicks' = pollTicks + 1
    /\ UNCHANGED <<pollCmd, pollMax, pollRet, ctxErr, resolvable, pollLookups,
                   cancelPhase, ticksAtFire, lookupsAtFire, everResolvable>>
    /\ UNCHANGED pollOthers

\* The caller's cancel(), or the context's deadline passing, during the run.
CtxFire(kind) ==
    /\ pollPc \in {"loop", "wait"}
    /\ ctxErr = "none"
    /\ ctxErr' = kind
    /\ cancelPhase' = IF pollPc = "wait" THEN "waiting" ELSE "running"
    /\ ticksAtFire' = pollTicks
    /\ lookupsAtFire' = pollLookups
    /\ UNCHANGED <<pollPc, pollCmd, pollMax, pollAttempt, pollRet, resolvable,
                   pollLookups, pollTicks, everResolvable>>
    /\ UNCHANGED pollOthers

CtxCancel == CtxFire("canceled")

CtxDeadline == CtxFire("deadline")

\* The installer that was run finishes and the command appears on the PATH.
CommandAppears ==
    /\ pollPc \in {"loop", "wait"}
    /\ ~resolvable
    /\ resolvable' = TRUE
    /\ everResolvable' = TRUE
    /\ UNCHANGED <<pollPc, pollCmd, pollMax, pollAttempt, pollRet, ctxErr,
                   pollLookups, pollTicks, cancelPhase, ticksAtFire, lookupsAtFire>>
    /\ UNCHANGED pollOthers

PollNext ==
    \/ PollIterate
    \/ PollSelectDone
    \/ PollSelectTick
    \/ CtxCancel
    \/ CtxDeadline
    \/ CommandAppears

SpecPoll == PollInit /\ [][PollNext]_vars

\* The goroutine of pollForCommand is scheduled and its timer fires; the
\* context and the PATH change or not as their owners please.
SpecPollFair ==
    /\ SpecPoll
    /\ WF_vars(PollIterate)
    /\ WF_vars(PollSelectDone)
    /\ WF_vars(PollSelectTick)

IsCancellationError(e) ==
    /\ ~e.isNil
    /\ e.wraps \in {"context canceled", "context deadline exceeded"}
    /\ e.wraps \in Range(e.text)

\* C1: pollForCommand(cmd, N), run with a context that never fires for a
\* command that never resolves, returns a non-nil error whose text names the
\* command and contains "not found in PATH", after N lookups.
C1_NotFoundAfterExhaustion ==
    (pollPc = "done" /\ cancelPhase = "never" /\ ~everResolvable /\ pollMax >= 1)
        => /\ pollLookups = pollMax
           /\ ~pollRet.isNil
           /\ pollCmd \in Range(pollRet.text)
           /\ \E k \in DOMAIN pollRet.text : pollRet.text[k] = " not found in PATH"

C30_BoundedPollTerminates ==
    /\ [](/\ pollLookups <= pollMax
          /\ pollTicks <= pollLookups
          /\ pollLookups <= pollTicks + 1
          /\ pollPc = "wait" => pollLookups = pollTicks + 1)
    /\ [][(pollLookups' # pollLookups /\ resolvable)
             => /\ pollPc' = "done"
                /\ pollRet' = Nil
                /\ pollTicks' = pollTicks]_vars
    /\ [][pollPc = "done" => UNCHANGED <<pollLookups, pollTicks, pollRet>>]_vars
    /\ <>(pollPc = "done")

\* The command appeared during the first wait and the second lookup
\* returned nil, with one pass of three left unused.
C30_Witness ==
    /\ pollPc = "done"
    /\ pollMax = 3
    /\ pollRet = Nil
    /\ pollLookups = 2
    /\ pollTicks = 1
    /\ resolvable
    /\ cancelPhase = "never"

----------------------------------------------------------------------------
(* httputil.NewTrustedCheckRedirect *)

MaxRedirects == 10

MaxVia == 11

GitHubTrustedHosts == <<"github.com", "api.github.com", "objects.githubusercontent.com">>

AllTrustedHosts == <<"github.com", "api.github.com", "objects.githubusercontent.com",
                     "nodejs.org", "cdn.nodejs.org">>

Schemes == {"https", "http", "ftp", ""}

Hostnames == Range(AllTrustedHosts) \cup
             {"evil.com", "sub.github.com", "github.com.evil.com", "GitHub.com", ""}

Ports == {"", "8443"}

\* url.URL.Hostname(): the host without its port.
Hostname(url) == url.Host.hostname

\* The gate with len(via) > MaxRedirects for the first test.
CheckRedirectOffByOne(trustedHosts, req, viaLen) ==
    IF viaLen > MaxRedirects
    THEN Errorf(<<"too many redirects">>, "")
    ELSE IF req.Scheme # "https"
    THEN Errorf(<<"redirect to non-HTTPS scheme: ", req.Scheme>>, "")
    ELSE IF \E k \in DOMAIN trustedHosts : Hostname(req) = trustedHosts[k]
    THEN Nil
    ELSE Errorf(<<"redirect to untrusted host: ", Hostname(req)>>, "")

\* The function NewTrustedCheckRedirect(trustedHosts) returns, applied to
\* req and a via of viaLen requests.
CheckRedirect(trustedHosts, req, viaLen) ==
    IF viaLen >= MaxRedirects
    THEN Errorf(<<"too many redirects">>, "")
    ELSE IF req.Scheme # "https"
    THEN Errorf(<<"redirect to non-HTTPS scheme: ", req.Scheme>>, "")
    ELSE IF \E k \in DOMAIN trustedHosts : Hostname(req) = trustedHosts[k]
    THEN Nil
    ELSE Errorf(<<"redirect to untrusted host: ", Hostname(req)>>, "")

GateInit ==
    /\ InstIdle
    /\ DlIdle
    /\ AddIdle
    /\ VfyIdle
    /\ ArchIdle
    /\ ChkIdle
    /\ PathIdle
    /\ EmitIdle
    /\ NetIdle
    /\ AppIdle
    /\ VerIdle
    /\ PollIdle
    /\ SumsIdle
    /\ FileIdle
    /\ gatePc = "input"
    /\ gateTrusted \in {GitHubTrustedHosts, AllTrustedHosts, <<>>}
    /\ gateReq \in [Scheme : Schemes, Host : [hostname : Hostnames, port : Ports]]
    /\ gateVia \in 0..MaxVia
    /\ gateRet = NoReturn

\* The HTTP client asks the gate about a redirect.
GateCheck ==
    /\ gatePc = "input"
    /\ gatePc' = "checked"
    /\ gateRet' = CheckRedirect(gateTrusted, gateReq, gateVia)
    /\ UNCHANGED <<gateTrusted, gateReq, gateVia>>
    /\ UNCHANGED gateOthers

GateNext == GateCheck

SpecGate == GateInit /\ [][GateNext]_vars

\* C3: the gate approves a request if and only if the chain of prior requests
\* is shorter than 10, the scheme is exactly https and the hostname is exactly
\* a member of the trusted list; a chain of 10 or more is rejected even for an
\* https URL on a trusted host.
C3_GateApprovesIff ==
    gatePc = "checked" =>
        (gateRet.isNil <=>
            /\ gateVia < 10
            /\ gateReq.Scheme = "https"
            /\ gateReq.Host.hostname \in Range(gateTrusted))

\* A chain of exactly 10 requests towards https://github.com is rejected.
C3_Witness ==
    /\ gatePc = "checked"
    /\ gateVia = 10
    /\ gateReq.Scheme = "https"
    /\ gateReq.Host.hostname = "github.com"
    /\ gateTrusted = GitHubTrustedHosts
    /\ ~gateRet.isNil

----------------------------------------------------------------------------
(* findChecksumInSHASUMS *)

HashLen == 64

MaxLines == 2

HexDigits == {"0", "1", "2", "3", "4", "5", "6", "7", "8", "9",
              "a", "b", "c", "d", "e", "f", "A", "B", "C", "D", "E", "F"}

\* The format check without the length test.
ValidHashAnyLength(hash) == \A k \in DOMAIN hash : hash[k] \in HexDigits

\* "Validate SHA-256 hash format (64 hex characters)"
ValidHash(hash) ==
    /\ Len(hash) = HashLen
    /\ \A k \in DOMAIN hash :
          \/ hash[k] \in {"0", "1", "2", "3", "4", "5", "6", "7", "8", "9"}
          \/ hash[k] \in {"a", "b", "c", "d", "e", "f"}
          \/ hash[k] \in {"A", "B", "C", "D", "E", "F"}

RECURSIVE FindFrom(_, _, _)
FindFrom(lines, k, filename) ==
    IF k > Len(lines)
    THEN [hash |-> <<>>, err |-> Errorf(<<"checksum not found for ", filename>>, "")]
    ELSE LET line == TrimSpace(lines[k])
             parts == Fields(line)
         IN  IF line = <<>> THEN FindFrom(lines, k + 1, filename)
             ELSE IF Len(parts) >= 2
             THEN IF ~ValidHash(parts[1]) THEN FindFrom(lines, k + 1, filename)
                  ELSE IF TrimPrefix(parts[2], "*") = filename
                  THEN [hash |-> parts[1], err |-> Nil]
                  ELSE FindFrom(lines, k + 1, filename)
             ELSE FindFrom(lines, k + 1, filename)

findChecksumInSHASUMS(shasumsContent, filename) ==
    FindFrom(Split(shasumsContent, "\n"), 1, filename)

\* Digest tokens a manifest may carry: two well-formed ones, and three that
\* are one character short, one character long, or not hexadecimal.
DigestLower == Rep("a", 32) \o Rep("0", 32)
DigestUpper == Rep("F", 32) \o Rep("9", 32)
DigestShort == Rep("b", 63)
DigestLong  == Rep("c", 65)
DigestNoHex == Rep("d", 63) \o <<"g">>

Digests == {DigestLower, DigestUpper, DigestShort, DigestLong, DigestNoHex}

FileX == <<"x", ".", "m", "s", "i">>
FileY == <<"y", ".", "m", "s", "i">>

\* How a manifest line is laid out around its fields.
LineForms == {"plain", "star", "crlf", "extra", "single", "blank"}

ManifestLines ==
    [form : {"plain", "star"}, digest : Digests, name : {FileX, FileY}]
    \cup [form : {"crlf", "extra"}, digest : {DigestLower, DigestShort}, name : {FileX}]
    \cup [form : {"single"}, digest : {DigestUpper}, name : {FileX}]
    \cup [form : {"blank"}, digest : {<<>>}, name : {<<>>}]

\* The whitespace-separated fields a line is written with.
WrittenFields(l) ==
    IF l.form = "plain" THEN <<l.digest, l.name>>
    ELSE IF l.form = "star" THEN <<l.digest, <<"*">> \o l.name>>
    ELSE IF l.form = "crlf" THEN <<l.digest, l.name>>
    ELSE IF l.form = "extra" THEN <<l.digest, <<"*", "*">> \o l.name, l.name>>
    ELSE IF l.form = "single" THEN <<l.digest>>
    ELSE <<>>

\* The text of a line.
Render(l) ==
    IF l.form = "plain" THEN l.digest \o <<" ", " ">> \o l.name
    ELSE IF l.form = "star" THEN l.digest \o <<" ", "*">> \o l.name
    ELSE IF l.form = "crlf" THEN <<" ">> \o l.digest \o <<"\t">> \o l.name \o <<"\r">>
    ELSE IF l.form = "extra"
    THEN l.digest \o <<" ", "*", "*">> \o l.name \o <<" ">> \o l.name
    ELSE IF l.form = "single" THEN l.digest
    ELSE <<" ", " ">>

RECURSIVE JoinLines(_, _)
JoinLines(ls, k) ==
    IF k > Len(ls) THEN <<>>
    ELSE Render(ls[k]) \o (IF k < Len(ls) THEN <<"\n">> ELSE <<>>) \o JoinLines(ls, k + 1)

Manifests == UNION {[1..n -> ManifestLines] : n \in 0..MaxLines}

SumsInit ==
    /\ InstIdle
    /\ DlIdle
    /\ AddIdle
    /\ VfyIdle
    /\ ArchIdle
    /\ ChkIdle
    /\ PathIdle
    /\ EmitIdle
    /\ NetIdle
    /\ AppIdle
    /\ VerIdle
    /\ PollIdle
    /\ GateIdle
    /\ FileIdle
    /\ sumsPc = "input"
    /\ sumsLines \in Manifests
    /\ sumsContent = JoinLines(sumsLines, 1)
    /\ sumsFilename \in {FileX, FileY, <<"*">> \o FileX}
    /\ sumsRet = [hash |-> <<>>, err |-> NoReturn]

SumsLookup ==
    /\ sumsPc = "input"
    /\ sumsPc' = "done"
    /\ LET r == findChecksumInSHASUMS(sumsContent, sumsFilename)
       IN  sumsRet' = r
    /\ UNCHANGED <<sumsLines, sumsContent, sumsFilename>>
    /\ UNCHANGED sumsOthers

SumsNext == SumsLookup

SpecSums == SumsInit /\ [][SumsNext]_vars

\* A digest: exactly 64 hexadecimal characters.
IsDigest64(d) == Len(d) = 64 /\ \A k \in DOMAIN d : d[k] \in HexDigits

\* the second field without one optional leading '*'
Unstar(n) == IF n # <<>> /\ n[1] = "*" THEN SubSeq(n, 2, Len(n)) ELSE n

NameMatches(l, filename) ==
    Len(WrittenFields(l)) >= 2 /\ Unstar(WrittenFields(l)[2]) = filename

LineMatches(l, filename) ==
    NameMatches(l, filename) /\ IsDigest64(WrittenFields(l)[1])

MatchingLines == {k \in DOMAIN sumsLines : LineMatches(sumsLines[k], sumsFilename)}

\* C4: findChecksumInSHASUMS returns the digest of the first line, in
\* manifest order, whose first field is a 64-hex-character digest and whose
\* second field, less one optional leading '*', is the filename; it fails if
\* and only if there is no such line, as in the empty manifest.
C4_FirstMatchingLine ==
    sumsPc = "done" =>
        IF MatchingLines = {}
        THEN ~sumsRet.err.isNil /\ sumsRet.hash = <<>>
        ELSE /\ sumsRet.err.isNil
             /\ sumsRet.hash = sumsLines[Min(MatchingLines)].digest

\* Two lines match, the first written with a '*': its digest is returned.
C4_Witness ==
    /\ sumsPc = "done"
    /\ Len(sumsLines) = 2
    /\ MatchingLines = {1, 2}
    /\ sumsLines[1].form = "star"
    /\ sumsLines[1].digest # sumsLines[2].digest
    /\ sumsRet.hash = sumsLines[1].digest

\* C5: the value returned is always exactly 64 hexadecimal characters; a line
\* whose digest is shorter, longer or not hexadecimal is skipped without an
\* error even when its filename matches, and the lines after it are scanned.
C5_OnlyWellFormedDigests ==
    sumsPc = "done" =>
        /\ sumsRet.err.isNil => IsDigest64(sumsRet.hash)
        /\ \A k \in DOMAIN sumsLines :
              (NameMatches(sumsLines[k], sumsFilename)
                 /\ ~IsDigest64(sumsLines[k].digest))
              => /\ sumsRet.hash # sumsLines[k].digest
                 /\ (\E j \in DOMAIN sumsLines : j > k /\ j \in MatchingLines)
                        => sumsRet.err.isNil

\* A 65-character digest on the matching first line is passed over and the
\* well-formed second line answers.
C5_Witness ==
    /\ sumsPc = "done"
    /\ Len(sumsLines) = 2
    /\ NameMatches(sumsLines[1], sumsFilename)
    /\ sumsLines[1].digest = DigestLong
    /\ MatchingLines = {2}
    /\ sumsRet.err.isNil
    /\ sumsRet.hash = sumsLines[2].digest

----------------------------------------------------------------------------
(* verifyFileChecksum *)

ContentHelloWorld == <<"h", "e", "l", "l", "o", " ", "w", "o", "r", "l", "d">>
ContentEmpty == <<>>
ContentHello == <<"h", "e", "l", "l", "o">>

ShaHelloWorld ==
    <<"b", "9", "4", "d", "2", "7", "b", "9", "9", "3", "4", "d", "3", "e", "0", "8",
      "a", "5", "2", "e", "5", "2", "d", "7", "d", "a", "7", "d", "a", "b", "f", "a",
      "c", "4", "8", "4", "e", "f", "e", "3", "7", "a", "5", "3", "8", "0", "e", "e",
      "9", "0", "8", "8", "f", "7", "a", "c", "e", "2", "e", "f", "c", "d", "e", "9">>

ShaEmpty ==
    <<"e", "3", "b", "0", "c", "4", "4", "2", "9", "8", "f", "c", "1", "c", "1", "4",
      "9", "a", "f", "b", "f", "4", "c", "8", "9", "9", "6", "f", "b", "9", "2", "4",
      "2", "7", "a", "e", "4", "1", "e", "4", "6", "4", "9", "b", "9", "3", "4", "c",
      "a", "4", "9", "5", "9", "9", "1", "b", "7", "8", "5", "2", "b", "8", "5", "5">>

ShaHello ==
    <<"2", "c", "f", "2", "4", "d", "b", "a", "5", "f", "b", "0", "a", "3", "0", "e",
      "2", "6", "e", "8", "3", "b", "2", "a", "c", "5", "b", "9", "e", "2", "9", "e",
      "1", "b", "1", "6", "1", "e", "5", "c", "1", "f", "a", "7", "4", "2", "5", "e",
      "7", "3", "0", "4", "3", "3", "6", "2", "9", "3", "8", "b", "9", "8", "2", "4">>

Contents == {ContentHelloWorld, ContentEmpty, ContentHello}

\* hex.EncodeToString(sha256.Sum256(content)): lower-case, 64 characters
Sha256Hex(content) ==
    IF content = ContentHelloWorld THEN ShaHelloWorld
    ELSE IF content = ContentEmpty THEN ShaEmpty
    ELSE ShaHello

\* Ways of writing a digest d as the expected value.
ToUpperChar(c) ==
    IF \E k \in 1..26 : LowerLetters[k] = c
    THEN UpperLetters[CHOOSE k \in 1..26 : LowerLetters[k] = c]
    ELSE c

UpperCased(d) == [k \in DOMAIN d |-> ToUpperChar(d[k])]

MixedCased(d) == [k \in DOMAIN d |-> IF k % 2 = 0 THEN ToUpperChar(d[k]) ELSE d[k]]

ExpectedHashes ==
    {ShaHelloWorld, ShaEmpty, ShaHello}
    \cup {UpperCased(ShaHelloWorld), UpperCased(ShaEmpty), UpperCased(ShaHello)}
    \cup {MixedCased(ShaHelloWorld), MixedCased(ShaEmpty), MixedCased(ShaHello)}
    \cup {SubSeq(ShaHelloWorld, 1, 63), ShaEmpty \o <<"0">>, Rep("0", 64), <<>>}

verifyFileChecksum(state, content, expectedHash) ==
    IF state = "missing"
    THEN Errorf(<<"failed to open file for checksum verification: ", "no such file">>,
                "no such file")
    ELSE IF state = "unreadable"
    THEN Errorf(<<"failed to compute checksum: ", "read error">>, "read error")
    ELSE LET actualHash == Sha256Hex(content)
         IN  IF ~EqualFold(actualHash, expectedHash)
             THEN Errorf(<<"checksum mismatch: expected ", expectedHash, ", got ",
                           actualHash>>, "")
             ELSE Nil

FileInit ==
    /\ InstIdle
    /\ DlIdle
    /\ AddIdle
    /\ VfyIdle
    /\ ArchIdle
    /\ ChkIdle
    /\ PathIdle
    /\ EmitIdle
    /\ NetIdle
    /\ AppIdle
    /\ VerIdle
    /\ PollIdle
    /\ GateIdle
    /\ SumsIdle
    /\ filePc = "input"
    /\ fileState \in {"missing", "unreadable", "ok"}
    /\ fileContent \in Contents
    /\ fileExpected \in ExpectedHashes
    /\ fileRet = NoReturn

FileVerify ==
    /\ filePc = "input"
    /\ filePc' = "done"
    /\ fileRet' = verifyFileChecksum(fileState, fileContent, fileExpected)
    /\ UNCHANGED <<fileState, fileContent, fileExpected>>
    /\ UNCHANGED fileOthers

FileNext == FileVerify

SpecFile == FileInit /\ [][FileNext]_vars

\* C6: verifyFileChecksum succeeds if and only if the file can be read and
\* its digest equals the expected one when letter case is ignored; another
\* digest gives a mismatch error, and a file that cannot be opened gives an
\* I/O error value.
C6_VerifyFileChecksum ==
    filePc = "done" =>
        /\ fileRet.isNil <=>
              (fileState = "ok"
                 /\ UpperCased(Sha256Hex(fileContent)) = UpperCased(fileExpected))
        /\ (fileState = "ok" /\ ~fileRet.isNil)
              => fileRet.text[1] = "checksum mismatch: expected "
        /\ fileState = "missing"
              => /\ ~fileRet.isNil
                 /\ fileRet.text[1] = "failed to open file for checksum verification: "
                 /\ fileRet.wraps # ""

\* The upper-case spelling of the file's digest is accepted.
C6_Witness ==
    /\ filePc = "done"
    /\ fileState = "ok"
    /\ fileContent = ContentHelloWorld
    /\ fileExpected = UpperCased(ShaHelloWorld)
    /\ fileExpected # ShaHelloWorld
    /\ fileRet.isNil

----------------------------------------------------------------------------
(* updater.compareVersions, updater.parseVersionParts *)

\* The width of Go's int, scaled down from the build's 64 (32 on 386): a
\* digit run overflows past 2^(IntBits-1) - 1 here as it does past 2^63 - 1
\* there.
IntBits == 8

MaxSegs == 3

Pow2(n) == 2 ^ n

MaxInt == Pow2(IntBits - 1) - 1

\* Two's-complement wrap-around of a machine int.
WrapInt(x) == ((x + Pow2(IntBits - 1)) % Pow2(IntBits)) - Pow2(IntBits - 1)

DecimalDigits == <<"0", "1", "2", "3", "4", "5", "6", "7", "8", "9">>

\* ch >= '0' && ch <= '9'
IsDigit(ch) == \E k \in 1..10 : DecimalDigits[k] = ch

\* int(ch - '0')
DigitValue(ch) == (CHOOSE k \in 1..10 : DecimalDigits[k] = ch) - 1

\* The inner loop of parseVersionParts from the k-th character of part on.
RECURSIVE ParseFrom(_, _, _)
ParseFrom(part, k, val) ==
    IF k > Len(part) THEN val
    ELSE IF IsDigit(part[k])
    THEN LET newVal == WrapInt(val * 10 + DigitValue(part[k]))
         IN  IF newVal < val THEN val ELSE ParseFrom(part, k + 1, newVal)
    ELSE val

parseVersionParts(version) ==
    LET parts == Split(version, ".")
    IN  [n \in DOMAIN parts |-> ParseFrom(parts[n], 1, 0)]

\* A comparison that stops at the end of the shorter operand.
RECURSIVE CompareShorterFrom(_, _, _)
CompareShorterFrom(aParts, bParts, i) ==
    IF i > Len(aParts) \/ i > Len(bParts) THEN 0
    ELSE IF aParts[i] < bParts[i] THEN -1
    ELSE IF aParts[i] > bParts[i] THEN 1
    ELSE CompareShorterFrom(aParts, bParts, i + 1)

compareVersionsShorter(a, b) ==
    CompareShorterFrom(parseVersionParts(a), parseVersionParts(b), 1)

\* A comparison that returns the difference of the first differing pair.
RECURSIVE CompareDiffFrom(_, _, _, _)
CompareDiffFrom(aParts, bParts, maxLen, i) ==
    IF i > maxLen THEN 0
    ELSE LET aVal == IF i <= Len(aParts) THEN aParts[i] ELSE 0
             bVal == IF i <= Len(bParts) THEN bParts[i] ELSE 0
         IN  IF aVal # bVal THEN aVal - bVal
             ELSE CompareDiffFrom(aParts, bParts, maxLen, i + 1)

compareVersionsDifference(a, b) ==
    LET aParts == parseVersionParts(a)
        bParts == parseVersionParts(b)
    IN  CompareDiffFrom(aParts, bParts,
                        IF Len(bParts) > Len(aParts) THEN Len(bParts) ELSE Len(aParts), 1)

\* The loop of compareVersions from index i on (i counts from 1 here).
RECURSIVE CompareFrom(_, _, _, _)
CompareFrom(aParts, bParts, maxLen, i) ==
    IF i > maxLen THEN 0
    ELSE LET aVal == IF i <= Len(aParts) THEN aParts[i] ELSE 0
             bVal == IF i <= Len(bParts) THEN bParts[i] ELSE 0
         IN  IF aVal < bVal THEN -1
             ELSE IF aVal > bVal THEN 1
             ELSE CompareFrom(aParts, bParts, maxLen, i + 1)

compareVersions(a, b) ==
    LET aParts == parseVersionParts(a)
        bParts == parseVersionParts(b)
        maxLen == IF Len(bParts) > Len(aParts) THEN Len(bParts) ELSE Len(aParts)
    IN  CompareFrom(aParts, bParts, maxLen, 1)

\* Segments of well-formed versions, and segments that are empty, not
\* numeric, numeric only in a prefix, zero-padded, or too long for the int.
PlainSegs == {<<"0">>, <<"1">>, <<"2">>, <<"9">>}

OddSegs == {<<>>, <<"x">>, <<"1", "b", "7">>, <<"0", "1">>, <<"1", "3">>,
            <<"1", "2", "8">>, <<"3", "0", "0">>, <<"6", "0", "0">>,
            <<"9", "9", "9">>, <<"1">>}

SegLists ==
    UNION {[1..n -> PlainSegs] : n \in 1..MaxSegs}
    \cup UNION {[1..n -> OddSegs] : n \in 1..2}

RECURSIVE JoinSegs(_, _)
JoinSegs(segs, k) ==
    IF k > Len(segs) THEN <<>>
    ELSE segs[k] \o (IF k < Len(segs) THEN <<".">> ELSE <<>>) \o JoinSegs(segs, k + 1)

VerInit ==
    /\ InstIdle
    /\ DlIdle
    /\ AddIdle
    /\ VfyIdle
    /\ ArchIdle
    /\ ChkIdle
    /\ PathIdle
    /\ EmitIdle
    /\ NetIdle
    /\ AppIdle
    /\ PollIdle
    /\ GateIdle
    /\ SumsIdle
    /\ FileIdle
    /\ verPc = "input"
    /\ verASegs \in SegLists
    /\ verBSegs \in SegLists
    /\ verA = JoinSegs(verASegs, 1)
    /\ verB = JoinSegs(verBSegs, 1)
    /\ verRet = 0

VerCompare ==
    /\ verPc = "input"
    /\ verPc' = "done"
    /\ verRet' = compareVersions(verA, verB)
    /\ UNCHANGED <<verASegs, verBSegs, verA, verB>>
    /\ UNCHANGED verOthers

VerNext == VerCompare

SpecVer == VerInit /\ [][VerNext]_vars

\* The number a segment's digit prefix writes, as an unbounded integer.
RECURSIVE PrefixValue(_, _, _)
PrefixValue(seg, k, acc) ==
    IF k > Len(seg) \/ ~(seg[k] \in Range(DecimalDigits)) THEN acc
    ELSE PrefixValue(seg, k + 1, acc * 10 + DigitValue(seg[k]))

\* The i-th segment's number, 0 past the end.
SegNumber(segs, i) == IF i <= Len(segs) THEN PrefixValue(segs[i], 1, 0) ELSE 0

\* The sign of the first differing pair of segment numbers.
SegmentwiseSign(aSegs, bSegs) ==
    LET n == IF Len(aSegs) > Len(bSegs) THEN Len(aSegs) ELSE Len(bSegs)
        differ == {i \in 1..n : SegNumber(aSegs, i) # SegNumber(bSegs, i)}
    IN  IF differ = {} THEN 0
        ELSE IF SegNumber(aSegs, Min(differ)) < SegNumber(bSegs, Min(differ)) THEN -1
        ELSE 1

\* Every segment's digit prefix is a number the machine int holds.
SegsFit(segs) == \A i \in DOMAIN segs : SegNumber(segs, i) <= MaxInt

\* C7 as stated: compareVersions returns the sign of the first differing
\* pair of segments, each read as the non-negative integer its digit prefix
\* writes (0 when empty or not numeric), missing trailing segments being 0.
C7_SegmentwiseCompare_Original ==
    verPc = "done" => verRet = SegmentwiseSign(verASegs, verBSegs)

\* C7, amended: the same for operands in which every segment's digit prefix
\* fits the machine int (a longer digit run is cut off where it overflows).
C7_SegmentwiseCompare ==
    (verPc = "done" /\ SegsFit(verASegs) /\ SegsFit(verBSegs))
        => verRet = SegmentwiseSign(verASegs, verBSegs)

\* 2.0.0 against 1.9.9 is greater.
C7_Witness ==
    /\ verPc = "done"
    /\ verA = <<"2", ".", "0", ".", "0">>
    /\ verB = <<"1", ".", "9", ".", "9">>
    /\ verRet = 1

\* C8: for all version strings compareVersions returns exactly one of -1, 0
\* and 1, whatever the number and shape of the segments, and
\* compareVersions(a, a) = 0.
C8_TotalAndReflexive ==
    verPc = "done" =>
        /\ verRet \in {-1, 0, 1}
        /\ verA = verB => verRet = 0

\* A version with an empty segment and one too long for the int, against itself.
C8_Witness ==
    /\ verPc = "done"
    /\ verA = verB
    /\ verASegs = << <<>>, <<"9", "9", "9">> >>
    /\ verRet = 0

\* The value of a segment's digit prefix, cut off before the first digit
\* that would take it past the largest int.
RECURSIVE CappedValue(_, _, _)
CappedValue(seg, k, acc) ==
    IF k > Len(seg) \/ ~(seg[k] \in Range(DecimalDigits)) THEN acc
    ELSE IF acc * 10 + DigitValue(seg[k]) > MaxInt THEN acc
    ELSE CappedValue(seg, k + 1, acc * 10 + DigitValue(seg[k]))

\* C28: parseVersionParts gives every segment the last value its digits
\* reached without overflow, never a wrapped-around one.
C28_OverflowCaps ==
    verPc = "done" =>
        /\ \A i \in DOMAIN verASegs :
             parseVersionParts(verA)[i] = CappedValue(verASegs[i], 1, 0)
        /\ \A i \in DOMAIN verBSegs :
             parseVersionParts(verB)[i] = CappedValue(verBSegs[i], 1, 0)

----------------------------------------------------------------------------
(* Installer.InstallNodeJS, Installer.InstallGit, Installer.InstallClaudeCode *)

defaultMaxRetries == 3

\* The command whose presence an operation checks, and its stepName.
Target(op) ==
    IF op = "nodejs" THEN "node" ELSE IF op = "git" THEN "git" ELSE "claude"

StepName(op) == op

\* The value emitProgress hands to onProgress, appended to what the sink got.
Emit(evs, step, status, message, percentage) ==
    Append(evs, [step |-> step, status |-> status, message |-> message,
                 percentage |-> percentage])

----------------------------------------------------------------------------
(* http.Client.Do with a CheckRedirect *)

URL(scheme, hostname) ==
    [Scheme |-> scheme, Host |-> [hostname |-> hostname, port |-> ""]]

\* The client follows the redirects the servers answer with, one after the
\* other, asking the gate before each with the requests made so far as via:
\* the requests issued, and the gate's error if it refused one.
RECURSIVE FollowFrom(_, _, _, _)
FollowFrom(trustedHosts, chain, k, requests) ==
    IF k > Len(chain)
    THEN [requests |-> requests, err |-> Nil]
    ELSE LET refused == CheckRedirect(trustedHosts, chain[k], Len(requests))
         IN  IF refused # Nil
             THEN [requests |-> requests, err |-> refused]
             ELSE FollowFrom(trustedHosts, chain, k + 1, Append(requests, chain[k]))

ClientDo(trustedHosts, url, chain) == FollowFrom(trustedHosts, chain, 1, <<url>>)

\* nodeDownloadBaseURL
nodeDownloadURL == URL("https", "nodejs.org")

----------------------------------------------------------------------------
(* Installer.downloadFile and Installer.downloadFileWithRetry.  Sizes are   *)
(* counted in units of which maxDownloadSize holds a few; one Read of the   *)
(* body returns one unit.                                                   *)

\* maxDownloadSize (500 MB in the code), scaled.
maxDownloadSize == 2

\* err.Error(): the fragments of the message, joined.
RECURSIVE ErrorText(_)
ErrorText(fragments) ==
    IF fragments = <<>> THEN ""
    ELSE Head(fragments) \o ErrorText(Tail(fragments))

Error(err) == ErrorText(err.text)

\* fmt.Errorf(prefix + "%w", cause) for a cause that is an error value.
Wrap(prefix, cause) == Errorf(<<prefix, Error(cause)>>, Error(cause))

\* What the server and the file system do during one downloadFile call:
\* do: client.Do fails or returns a response; status: its StatusCode;
\* open: os.OpenFile of destPath; declared: ContentLength (-1 when absent);
\* delivered: the units the body yields before it ends; readErr: the body
\* ends with an error instead of io.EOF; closeErr: out.Close() fails;
\* redirects: the URLs the servers redirect to before the response.
Response(do, status, open, declared, delivered, readErr, closeErr) ==
    [do |-> do, status |-> status, open |-> open, declared |-> declared,
     delivered |-> delivered, readErr |-> readErr, closeErr |-> closeErr,
     redirects |-> <<>>]

Redirected(chain, resp) == [resp EXCEPT !.redirects = chain]

\* Chains of redirects: to the CDN, to plain http, to another host, to the
\* CDN and from there to another host, and MaxRedirects hops long.
RedirectChains ==
    {<<URL("https", "cdn.nodejs.org")>>,
     <<URL("http", "nodejs.org")>>,
     <<URL("https", "evil.com")>>,
     <<URL("https", "cdn.nodejs.org"), URL("https", "evil.com")>>,
     [k \in 1..MaxRedirects |-> URL("https", "nodejs.org")]}

RedirectedResponses ==
    {Redirected(chain, Response("ok", 200, "ok", maxDownloadSize, maxDownloadSize,
                                FALSE, FALSE)) : chain \in RedirectChains}

\* The responses with a body: a body of declared length yields at most that
\* many units and ends with an error when it yields fewer; a body of
\* undeclared length may be of any size.
BodyResponses ==
    {Response("ok", 200, "ok", -1, n, re, ce) :
        n \in 0..(maxDownloadSize + 1), re \in BOOLEAN, ce \in BOOLEAN}
    \cup UNION {{Response("ok", 200, "ok", d, n, n < d, ce) :
                    n \in 0..d, ce \in BOOLEAN} : d \in 0..maxDownloadSize}
    \cup {Response("ok", 200, "ok", maxDownloadSize + 1, maxDownloadSize + 1,
                   FALSE, FALSE)}

Responses ==
    {Response("error", 0, "ok", -1, 0, FALSE, FALSE),
     Response("ok", 404, "ok", -1, 0, FALSE, FALSE),
     Response("ok", 200, "error", -1, 0, FALSE, FALSE)}
    \cup BodyResponses
    \cup RedirectedResponses

\* The percentages progressReader.onProgress emits: one per Read of the
\* body, the Read that finds its end included unless the LimitReader has
\* already reached its limit.
ProgressPercentages(declared, delivered) ==
    [k \in 1..delivered |-> (k * 100) \div declared]
    \o (IF delivered < maxDownloadSize
        THEN <<(delivered * 100) \div declared>> ELSE <<>>)

\* io.Copy(out, io.LimitReader(body, maxDownloadSize)) returns an error: the
\* body's error is seen unless the LimitReader reached its limit first, and
\* reaching the limit is io.EOF, not an error.
CopyError(resp) == resp.readErr /\ resp.delivered < maxDownloadSize

\* A test of closeErr ahead of copyErr.
AfterCopyCloseFirst(copyFailed, closeFailed) ==
    IF closeFailed THEN "close" ELSE IF copyFailed THEN "copy" ELSE "ok"

\* Which error downloadFile returns after out.Close(): copyErr is tested
\* first, closeErr after it.
AfterCopy(copyFailed, closeFailed) ==
    IF copyFailed THEN "copy" ELSE IF closeFailed THEN "close" ELSE "ok"

\* The file at destPath when a declared length above the limit is rejected:
\* created and truncated by os.OpenFile, neither closed nor removed.
FileAfterTooLarge == [exists |-> TRUE, size |-> 0, open |-> TRUE]

\* downloadFile(url, destPath, stepName) against a response: the error, the
\* file at destPath afterwards, whether this call created it, and the
\* percentages emitted while the body was copied.
downloadFile(ctx, resp, file) ==
    LET sent == ClientDo(AllTrustedHosts, nodeDownloadURL, resp.redirects)
        Failure(err, requests) ==
            [err |-> err, file |-> file, created |-> FALSE, pcts |-> <<>>,
             requests |-> requests]
    IN
    IF ctx # "none"
    THEN Failure(Errorf(<<"failed to download file: ", CtxErrText(ctx)>>, CtxErrText(ctx)),
                 <<>>)
    ELSE IF resp.do = "error"
    THEN Failure(Errorf(<<"failed to download file: ", "connection refused">>,
                        "connection refused"),
                 <<nodeDownloadURL>>)
    ELSE IF sent.err # Nil
    THEN Failure(Wrap("failed to download file: ", sent.err), sent.requests)
    ELSE IF resp.status # 200
    THEN Failure(Errorf(<<"download returned status ", "404">>, ""), sent.requests)
    ELSE IF resp.open = "error"
    THEN Failure(Errorf(<<"failed to create file ", "destPath", ": ", "access denied">>,
                        "access denied"),
                 sent.requests)
    ELSE IF resp.declared > 0 /\ resp.declared > maxDownloadSize
    THEN [err |-> Errorf(<<"file too large: ", "bytes exceeds limit">>, ""),
          file |-> FileAfterTooLarge, created |-> TRUE, pcts |-> <<>>,
          requests |-> sent.requests]
    ELSE LET written == Min({resp.delivered, maxDownloadSize})
             pcts == IF resp.declared > 0
                     THEN ProgressPercentages(resp.declared, resp.delivered)
                     ELSE <<>>
         IN  IF AfterCopy(CopyError(resp), resp.closeErr) = "copy"
             THEN [err |-> Errorf(<<"failed to write downloaded file: ", "unexpected EOF">>,
                                  "unexpected EOF"),
                   file |-> NoFile, created |-> TRUE, pcts |-> pcts,
                   requests |-> sent.requests]
             ELSE IF AfterCopy(CopyError(resp), resp.closeErr) = "close"
             THEN [err |-> Errorf(<<"failed to finalize downloaded file: ", "close failed">>,
                                  "close failed"),
                   file |-> NoFile, created |-> TRUE, pcts |-> pcts,
                   requests |-> sent.requests]
             ELSE [err |-> Nil,
                   file |-> [exists |-> TRUE, size |-> written, open |-> FALSE],
                   created |-> TRUE, pcts |-> pcts, requests |-> sent.requests]

\* The destPath downloadFileWithRetry hands to downloadFile in the pass
\* numbered attempt: its own parameter, the same in every pass.
destPathOf(attempt) == "msiPath"

\* A retry loop that does not stop at a success while passes remain.
AfterAttemptNoStop(attempt, lastErr) ==
    IF attempt < defaultMaxRetries - 1 THEN "backoff"
    ELSE IF lastErr = Nil THEN "success"
    ELSE "exhausted"

\* A backoff of one second, whatever the attempt.
backoffConstant(attempt) == 1

\* backoff := time.Duration(1<<uint(attempt)) * time.Second, in seconds
backoff(attempt) == 2 ^ attempt

\* strconv.Itoa, for one digit
Itoa(n) == DecimalDigits[n + 1]

\* fmt.Sprintf("Download failed, retrying in %v... (attempt %d/%d)", backoff,
\* attempt+2, maxRetries)
RetryMessage(attempt) ==
    "Download failed, retrying in " \o Itoa(backoff(attempt)) \o "s... (attempt "
        \o Itoa(attempt + 2) \o "/" \o Itoa(defaultMaxRetries) \o ")"

\* What downloadFileWithRetry does after downloadFile returned lastErr in
\* pass attempt of its loop.
AfterAttempt(attempt, lastErr) ==
    IF lastErr = Nil THEN "success"
    ELSE IF attempt < defaultMaxRetries - 1 THEN "backoff"
    ELSE "exhausted"

RECURSIVE EmitAll(_, _, _)
EmitAll(evs, step, pcts) ==
    IF pcts = <<>>
    THEN evs
    ELSE EmitAll(Emit(evs, step, "installing", "downloading", Head(pcts)),
                 step, Tail(pcts))

\* The events of one downloadFile call.
DownloadEvents(evs, step, r) ==
    EmitAll(Emit(evs, step, "installing", "downloading from url", 0), step, r.pcts)

\* The files a previous run may have left at destPath.
StaleFiles == {NoFile, [exists |-> TRUE, size |-> 1, open |-> FALSE]}

DlInit ==
    /\ PollIdle
    /\ GateIdle
    /\ SumsIdle
    /\ FileIdle
    /\ VerIdle
    /\ InstIdle
    /\ AppIdle
    /\ AddIdle
    /\ VfyIdle
    /\ ArchIdle
    /\ ChkIdle
    /\ PathIdle
    /\ EmitIdle
    /\ NetIdle
    /\ dlPc = "loop"
    /\ dlTry = 0
    /\ dlCtx \in {"none", "canceled", "deadline"}
    /\ dlRet = NoReturn
    /\ dlLast = Nil
    /\ dlFile \in StaleFiles
    /\ dlCalls = <<>>
    /\ dlEvents = <<>>
    /\ dlWaits = <<>>
    /\ dlFire = IF dlCtx = "none" THEN NeverFired
                ELSE [phase |-> "entry", calls |-> 0, waits |-> 0]

\* One pass of the loop: downloadFile, then return nil, announce the retry,
\* or leave the loop and return the last error wrapped.
DlAttempt ==
    /\ dlPc = "loop"
    /\ dlTry < defaultMaxRetries
    /\ \E resp \in Responses :
         LET r == downloadFile(dlCtx, resp, dlFile)
             e1 == DownloadEvents(dlEvents, "nodejs", r)
             after == AfterAttempt(dlTry, r.err)
         IN  /\ dlCalls' = Append(dlCalls, [ctx |-> dlCtx, dest |-> destPathOf(dlTry),
                                            resp |-> resp, err |-> r.err,
                                            file |-> r.file, created |-> r.created,
                                            requests |-> r.requests])
             /\ dlLast' = r.err
             /\ dlFile' = r.file
             /\ dlPc' = IF after = "backoff" THEN "backoff" ELSE "done"
             /\ dlEvents' = IF after = "backoff"
                            THEN Emit(e1, "nodejs", "installing",
                                      RetryMessage(dlTry), 0)
                            ELSE e1
             /\ dlRet' = IF after = "success" THEN Nil
                         ELSE IF after = "exhausted"
                         THEN Wrap("download failed after 3 attempts: ", r.err)
                         ELSE dlRet
    /\ UNCHANGED <<dlTry, dlCtx, dlWaits, dlFire>>
    /\ UNCHANGED dlOthers

\* The select between time.After(backoff) and i.ctx.Done(), then attempt++.
DlBackoff ==
    /\ dlPc = "backoff"
    /\ IF SelectCase(dlCtx) = "done"
       THEN /\ dlPc' = "done"
            /\ dlRet' = Errorf(<<"download cancelled: ", CtxErrText(dlCtx)>>,
                               CtxErrText(dlCtx))
            /\ UNCHANGED <<dlTry, dlWaits>>
       ELSE /\ dlPc' = "loop"
            /\ dlTry' = dlTry + 1
            /\ dlWaits' = Append(dlWaits, backoff(dlTry))
            /\ UNCHANGED dlRet
    /\ UNCHANGED <<dlCtx, dlLast, dlFile, dlCalls, dlEvents, dlFire>>
    /\ UNCHANGED dlOthers

\* The Installer's context is cancelled, or its deadline passes.
DlCtxFire(kind) ==
    /\ dlPc \in {"loop", "backoff"}
    /\ dlCtx = "none"
    /\ dlCtx' = kind
    /\ dlFire' = [phase |-> dlPc, calls |-> Len(dlCalls), waits |-> Len(dlWaits)]
    /\ UNCHANGED <<dlPc, dlTry, dlRet, dlLast, dlFile, dlCalls, dlEvents, dlWaits>>
    /\ UNCHANGED dlOthers

DlCancel == DlCtxFire("canceled")

DlDeadline == DlCtxFire("deadline")

DlNext ==
    \/ DlAttempt
    \/ DlBackoff
    \/ DlCancel
    \/ DlDeadline

SpecDl == DlInit /\ [][DlNext]_vars

Failed(call) == call.err # Nil

\* C11: downloadFileWithRetry calls downloadFile at most 3 times, never
\* again after a call that succeeded, returns nil if and only if some call
\* succeeded, and returns the error that wraps the last call's error only
\* after all 3 calls have failed.
C11_BoundedRetry ==
    /\ Len(dlCalls) <= 3
    /\ \A k \in 1..(Len(dlCalls) - 1) : Failed(dlCalls[k])
    /\ dlPc = "done" =>
         /\ dlRet = Nil <=> \E k \in DOMAIN dlCalls : ~Failed(dlCalls[k])
         /\ "download failed after 3 attempts: " \in Range(dlRet.text)
              => /\ Len(dlCalls) = 3
                 /\ \A k \in DOMAIN dlCalls : Failed(dlCalls[k])
                 /\ dlRet.wraps = Error(dlCalls[3].err)
         /\ (Len(dlCalls) = 3 /\ Failed(dlCalls[3]))
              => dlRet = Wrap("download failed after 3 attempts: ", dlCalls[3].err)
    /\ (dlPc # "done" /\ dlCalls # <<>>) => Failed(dlCalls[Len(dlCalls)])

\* Three calls failed for three different reasons and the error of the
\* third is the one returned.
C11_Witness ==
    /\ dlPc = "done"
    /\ Len(dlCalls) = 3
    /\ dlCalls[1].resp.status = 404
    /\ dlCalls[2].resp.readErr
    /\ dlCalls[3].resp.closeErr
    /\ dlRet.wraps = "failed to finalize downloaded file: close failed"

\* C12: when the signal fires while downloadFileWithRetry waits between two
\* attempts, the wait is abandoned (it is not counted as completed), the
\* error returned is the cancellation error, and downloadFile is not called
\* again.
C12_BackoffCancellable ==
    dlFire.phase = "backoff"
        => /\ dlPc \in {"backoff", "done"}
           /\ Len(dlCalls) = dlFire.calls
           /\ Len(dlWaits) = dlFire.waits
           /\ dlPc = "done" => /\ IsCancellationError(dlRet)
                               /\ "download cancelled: " \in Range(dlRet.text)

\* The deadline passed during the second wait: two calls were made, one
\* wait was completed, and the deadline error is returned.
C12_Witness ==
    /\ dlPc = "done"
    /\ dlFire = [phase |-> "backoff", calls |-> 2, waits |-> 1]
    /\ Len(dlCalls) = 2
    /\ dlRet.wraps = "context deadline exceeded"

\* C19: whenever downloadFile returns an error after it created the
\* destination file (read failure, close failure or size-limit rejection),
\* no file remains at the destination path.
C19_NoPartialArtifact ==
    \A k \in DOMAIN dlCalls :
        (dlCalls[k].created /\ Failed(dlCalls[k])) => ~dlCalls[k].file.exists

\* The payload of a response is larger than the limit: by its declared
\* length, or by what its body streams.
Oversized(resp) ==
    /\ resp.do = "ok"
    /\ resp.status = 200
    /\ resp.open = "ok"
    /\ resp.declared > maxDownloadSize \/ resp.delivered > maxDownloadSize

\* C20: downloadFile never returns nil for a payload larger than the limit:
\* a declared length above it is rejected before a byte is written, and a
\* body that streams more than the limit ends in a size-limit error.
C20_SizeLimitEnforced ==
    \A k \in DOMAIN dlCalls :
        (dlCalls[k].ctx = "none" /\ Oversized(dlCalls[k].resp))
            => /\ Failed(dlCalls[k])
               /\ "file too large: " \in Range(dlCalls[k].err.text)
               /\ dlCalls[k].file.size = 0

\* The response comes after a redirect the gate refuses.
PolicyViolation(resp) ==
    /\ resp.do = "ok"
    /\ \E j \in DOMAIN resp.redirects :
         \/ resp.redirects[j].Scheme # "https"
         \/ Hostname(resp.redirects[j]) \notin Range(AllTrustedHosts)
         \/ j >= MaxRedirects

\* C21: a downloadFile call that fails on a redirect to a non-HTTPS URL, to
\* an untrusted host, or on too many redirects, is the last call
\* downloadFileWithRetry makes, and downloadFileWithRetry returns at once.
C21_PolicyViolationNotRetried ==
    \A k \in DOMAIN dlCalls :
        (dlCalls[k].ctx = "none" /\ PolicyViolation(dlCalls[k].resp))
            => /\ k = Len(dlCalls)
               /\ dlPc = "done"
               /\ dlRet # Nil

\* The retry notices among the events of downloadFileWithRetry.
RetryNotices ==
    SelectSeq(dlEvents, LAMBDA e : e.message \notin {"downloading from url", "downloading"})

ExpectedRetryNotices ==
    <<"Download failed, retrying in 1s... (attempt 2/3)",
      "Download failed, retrying in 2s... (attempt 3/3)">>

\* C31: the waits between attempts last 1 and 2 seconds; one "installing"
\* notice naming the attempt to come is emitted for every failed attempt but
\* the last, before the wait that follows it; after the last failed attempt
\* there is neither a notice nor a wait.
C31_ExponentialBackoff ==
    /\ Len(dlWaits) <= defaultMaxRetries - 1
    /\ \A k \in DOMAIN dlWaits : dlWaits[k] = 2 ^ (k - 1)
    /\ Len(RetryNotices) =
         Cardinality({k \in DOMAIN dlCalls : k < defaultMaxRetries /\ Failed(dlCalls[k])})
    /\ \A k \in DOMAIN RetryNotices :
         /\ RetryNotices[k].status = "installing"
         /\ RetryNotices[k].message = ExpectedRetryNotices[k]
    /\ Len(dlWaits) <= Len(RetryNotices)
    /\ Len(RetryNotices) <= Len(dlWaits) + 1
    /\ dlPc = "loop" => Len(RetryNotices) = Len(dlWaits)

\* Three attempts failed, with a wait of 1 s and a wait of 2 s between them.
C31_Witness ==
    /\ dlPc = "done"
    /\ dlCtx = "none"
    /\ Len(dlCalls) = defaultMaxRetries
    /\ \A k \in DOMAIN dlCalls : Failed(dlCalls[k])
    /\ dlWaits = <<1, 2>>
    /\ Len(RetryNotices) = 2

\* A call of downloadFile that got as far as copying the body.
Streamed(call) ==
    /\ call.ctx = "none"
    /\ call.resp.do = "ok"
    /\ ClientDo(AllTrustedHosts, nodeDownloadURL, call.resp.redirects).err = Nil
    /\ call.resp.status = 200
    /\ call.resp.open = "ok"
    /\ call.resp.declared <= maxDownloadSize

\* C36: a call of downloadFile whose copy of the body failed returned the
\* copy's error, whether out.Close() then failed or not: never nil and
\* never the error of the close.
C36_CopyErrorFirst ==
    \A k \in DOMAIN dlCalls :
        (Streamed(dlCalls[k]) /\ CopyError(dlCalls[k].resp))
            => /\ dlCalls[k].err # Nil
               /\ dlCalls[k].err.wraps = "unexpected EOF"
               /\ dlCalls[k].err.text = <<"failed to write downloaded file: ", "unexpected EOF">>

\* The copy failed in two calls, the close failing after one of them and
\* succeeding after the other.
C36_Witness ==
    /\ \E k \in DOMAIN dlCalls :
          /\ Streamed(dlCalls[k]) /\ CopyError(dlCalls[k].resp)
          /\ dlCalls[k].resp.closeErr
          /\ dlCalls[k].err.wraps = "unexpected EOF"
    /\ \E k \in DOMAIN dlCalls :
          /\ Streamed(dlCalls[k]) /\ CopyError(dlCalls[k].resp)
          /\ ~dlCalls[k].resp.closeErr
          /\ dlCalls[k].err.wraps = "unexpected EOF"

\* C37: no two attempts of one downloadFileWithRetry write to the same
\* destination.
C37_DestinationPerAttempt ==
    \A j \in DOMAIN dlCalls : \A k \in DOMAIN dlCalls :
        j < k => dlCalls[j].dest # dlCalls[k].dest

----------------------------------------------------------------------------
(* The three install operations *)

\* A check for an existing installation that never finds one.
AlreadyInstalledNever(cmd, path) == FALSE

\* "Check if already installed": exec.LookPath(cmd) returns no error.
AlreadyInstalled(cmd, path) == cmd \in path

\* isWingetAvailable: exec.LookPath("winget") returns no error.
isWingetAvailable(path) == "winget" \in path

\* A winget branch that reports success without looking at the verification.
AfterWingetUnverified(installOk, verifyOk) ==
    IF installOk THEN "completed" ELSE "fallback"

\* The winget branch: completed when the install and then the verification
\* succeed, the direct download otherwise.
AfterWinget(installOk, verifyOk) ==
    IF installOk
    THEN (IF verifyOk THEN "completed" ELSE "fallback")
    ELSE "fallback"

\* Where the direct download starts: InstallGit first asks the release API.
DownloadEntry(op) == IF op = "git" THEN "resolve" ELSE "tempdir"

\* The three install operations, and the operations of the Installer that
\* report progress.
InstallOps == {"nodejs", "git", "claudecode"}

Operations == InstallOps \cup {"claudeCodeUpdate"}

InstInit ==
    /\ PollIdle
    /\ DlIdle
    /\ AddIdle
    /\ VfyIdle
    /\ ArchIdle
    /\ ChkIdle
    /\ PathIdle
    /\ EmitIdle
    /\ NetIdle
    /\ AppIdle
    /\ GateIdle
    /\ SumsIdle
    /\ FileIdle
    /\ VerIdle
    /\ instOp \in Operations
    /\ instPc = "start"
    /\ instRet = NoReturn
    /\ instCtx \in {"none", "canceled"}
    /\ events = <<>>
    /\ onPath \in SUBSET {Target(instOp), "winget", "npm"}
    /\ httpLog = <<>>
    /\ execLog = <<>>
    /\ pathLog = <<>>
    /\ dlAttempt = 0
    /\ claudeAttempt = 0
    /\ dest = NoDownload
    /\ hist = NoHistory

\* A step of the running operation: the new location, result, events,
\* requests, executions, pathutil calls, attempt and history.
InstStep(pc2, ret2, evs2, http2, exec2, plog2, att2, hist2) ==
    /\ instPc' = pc2
    /\ instRet' = ret2
    /\ events' = evs2
    /\ httpLog' = http2
    /\ execLog' = exec2
    /\ pathLog' = plog2
    /\ dlAttempt' = att2
    /\ hist' = hist2
    /\ UNCHANGED <<instOp, instCtx, onPath, dest, claudeAttempt>>
    /\ UNCHANGED instOthers

\* The message of the error an operation returns when its installation
\* step fails, up to the cause.
FailPrefix(op) ==
    IF op = "nodejs" THEN "failed to install Node.js: "
    ELSE IF op = "git" THEN "failed to install Git: "
    ELSE IF op = "claudecode" THEN "failed to install Claude Code: "
    ELSE "failed to update Claude Code: "

FailMessage(op) ==
    IF op = "nodejs" THEN "Failed to install Node.js"
    ELSE IF op = "git" THEN "Failed to install Git"
    ELSE IF op = "claudecode" THEN "Failed to install Claude Code"
    ELSE "Failed to update Claude Code"

\* fmt.Errorf(prefix + "%w", err) for a cause given by its message.
WrapMessage(prefix, cause) == Errorf(<<prefix, cause>>, cause)

\* A failure return that emits no event.
InstFailSilent(evs, http2, exec2, cause) ==
    InstStep("done", WrapMessage(FailPrefix(instOp), cause), evs,
             http2, exec2, pathLog, dlAttempt, hist)

\* A failure that emits the error event and returns nil.
InstFailSwallowed(evs, http2, exec2, cause) ==
    InstStep("done", Nil,
             Emit(evs, StepName(instOp), "error", FailMessage(instOp), 0),
             http2, exec2, pathLog, dlAttempt, hist)

\* The failure return of an operation whose installation step failed: an
\* error event for the step, and the cause wrapped.
InstFail(evs, http2, exec2, cause) ==
    InstStep("done", WrapMessage(FailPrefix(instOp), cause),
             Emit(evs, StepName(instOp), "error", FailMessage(instOp), 0),
             http2, exec2, pathLog, dlAttempt, hist)

\* The entry of Install*: the first event, the LookPath short-circuit and the
\* choice of the first strategy.
InstCheckExisting ==
    /\ instPc = "start"
    /\ instOp \in InstallOps
    /\ LET step == StepName(instOp)
           e1 == Emit(events, step, "installing", "checking for existing installation", 0)
       IN  IF AlreadyInstalled(Target(instOp), onPath)
           THEN InstStep("done", Nil,
                         Emit(e1, step, "completed", "already installed", 100),
                         httpLog, execLog, pathLog, dlAttempt,
                         [hist EXCEPT !.existing = "yes"])
           ELSE IF instOp = "claudecode"
           THEN InstStep("npm", instRet, e1, httpLog, execLog, pathLog, dlAttempt,
                         [hist EXCEPT !.existing = "no"])
           ELSE IF isWingetAvailable(onPath)
           THEN InstStep("winget", instRet,
                         Emit(e1, step, "installing", "installing via winget", 10),
                         httpLog, execLog, pathLog, dlAttempt,
                         [hist EXCEPT !.existing = "no", !.winget = "yes"])
           ELSE InstStep(DownloadEntry(instOp), instRet,
                         Emit(e1, step, "installing", "downloading installer", 25),
                         httpLog, execLog, pathLog, dlAttempt,
                         [hist EXCEPT !.existing = "no", !.winget = "no",
                                      !.download = TRUE])

\* Strategy 1: winget install, then RefreshPath and the verification.
InstWinget ==
    /\ instPc = "winget"
    /\ \E installOk \in {instCtx = "none", FALSE}, verifyOk \in {instCtx = "none", FALSE} :
         LET step == StepName(instOp)
             ran == Append(execLog, "winget install")
             h2 == [hist EXCEPT !.wingetInstall = IF installOk THEN "ok" ELSE "failed",
                                !.wingetVerify = IF ~installOk THEN "none"
                                                 ELSE IF verifyOk THEN "ok" ELSE "failed"]
             plog2 == IF installOk THEN Append(pathLog, "RefreshPath") ELSE pathLog
         IN  IF AfterWinget(installOk, verifyOk) = "completed"
             THEN InstStep("done", Nil,
                           Emit(Emit(events, step, "installing", "verified", 95),
                                step, "completed", "installed via winget", 100),
                           httpLog, ran, plog2, dlAttempt, h2)
             ELSE InstStep(DownloadEntry(instOp), instRet,
                           Emit(Emit(events, step, "installing",
                                     "winget failed, trying direct download", 20),
                                step, "installing", "downloading installer", 25),
                           httpLog, ran, plog2, dlAttempt,
                           [h2 EXCEPT !.download = TRUE])

\* getGitDownloadURL: the release API request and the choice of an asset.
InstResolveURL ==
    /\ instPc = "resolve"
    /\ \E ok \in {instCtx = "none", FALSE} :
         LET http2 == Append(httpLog, "api.github.com")
         IN  IF ok
             THEN InstStep("tempdir", instRet, events, http2, execLog, pathLog,
                           dlAttempt, hist)
             ELSE InstFail(events, http2, execLog, "failed to get Git download URL")

\* getTempDir
InstTempDir ==
    /\ instPc = "tempdir"
    /\ \E ok \in BOOLEAN :
         IF ok
         THEN InstStep("attempt", instRet, events, httpLog, execLog, pathLog, 0, hist)
         ELSE InstFail(events, httpLog, execLog, "failed to create temp directory")

\* The responses the install operations are run against: a transport
\* error, a complete body of declared length, a body cut short, and a body
\* of undeclared length beyond the limit.
InstResponses ==
    {Response("error", 0, "ok", -1, 0, FALSE, FALSE),
     Response("ok", 200, "ok", maxDownloadSize, maxDownloadSize, FALSE, FALSE),
     Response("ok", 200, "ok", maxDownloadSize, 1, TRUE, FALSE),
     Response("ok", 200, "ok", -1, maxDownloadSize + 1, FALSE, FALSE)}

\* What the server serves as the installer: the genuine one or another.
ServedContents == {ContentHelloWorld, ContentEmpty}

\* The bytes at destPath after a successful downloadFile: what was served,
\* or its beginning when the LimitReader cut it.
Downloaded(resp, served) ==
    IF resp.delivered > maxDownloadSize /\ served = ContentHelloWorld
    THEN ContentHello
    ELSE served

\* One pass of the loop of downloadFileWithRetry: downloadFile, and after a
\* failure that is not the last the retry message.
InstDownloadAttempt ==
    /\ instPc = "attempt"
    /\ \E resp \in InstResponses, served \in ServedContents :
         LET step == StepName(instOp)
             r == downloadFile(instCtx, resp, dest.file)
             e1 == DownloadEvents(events, step, r)
             after == AfterAttempt(dlAttempt, r.err)
             cause == IF after = "exhausted"
                      THEN Wrap("download failed after 3 attempts: ", r.err)
                      ELSE Nil
         IN  /\ dest' = [file |-> r.file,
                         content |-> IF r.err = Nil THEN Downloaded(resp, served)
                                     ELSE <<>>]
             /\ httpLog' = Append(httpLog, "download")
             /\ hist' = [hist EXCEPT !.downloaded = (after = "success")]
             /\ instPc' = IF after = "success" THEN "checksum"
                          ELSE IF after = "backoff" THEN "backoff" ELSE "done"
             /\ events' = IF after = "success" THEN e1
                          ELSE IF after = "backoff"
                          THEN Emit(e1, step, "installing", RetryMessage(dlAttempt), 0)
                          ELSE Emit(e1, step, "error", FailMessage(instOp), 0)
             /\ instRet' = IF after = "exhausted"
                           THEN Wrap(FailPrefix(instOp),
                                     Wrap("failed to download installer: ", cause))
                           ELSE instRet
    /\ UNCHANGED <<instOp, instCtx, onPath, execLog, pathLog, dlAttempt, claudeAttempt>>
    /\ UNCHANGED instOthers

\* The select between time.After(backoff) and ctx.Done().
InstBackoff ==
    /\ instPc = "backoff"
    /\ IF SelectCase(instCtx) = "done"
       THEN InstFail(events, httpLog, execLog, "download cancelled")
       ELSE InstStep("attempt", instRet, events, httpLog, execLog, pathLog,
                     dlAttempt + 1, hist)

\* The name the Node.js manifest lists the MSI under.
msiFilename == FileX

GoodLine(form, name) == [form |-> form, digest |-> ShaHelloWorld, name |-> name]

\* SHASUMS256.txt as the server may serve it: with the genuine digest of the
\* MSI, after a line for another file, with another digest, without a line
\* for the MSI.
NodeManifests ==
    {<<GoodLine("plain", msiFilename)>>,
     <<GoodLine("plain", FileY), GoodLine("star", msiFilename)>>,
     <<[form |-> "plain", digest |-> ShaHello, name |-> msiFilename]>>,
     <<GoodLine("plain", FileY)>>}

\* The .sha256 file of a Git release: the digest alone, the digest and the
\* name, another digest, nothing.
GitChecksums ==
    {<<GoodLine("single", FileX)>>,
     <<GoodLine("plain", FileX)>>,
     <<[form |-> "single", digest |-> ShaHello, name |-> FileX]>>,
     <<[form |-> "blank", digest |-> <<>>, name |-> <<>>]>>}

ChecksumFiles(op) == IF op = "git" THEN GitChecksums ELSE NodeManifests

FileState(file) == IF file.exists THEN "ok" ELSE "missing"

\* An integrity check that lets the MSI through without a manifest.
ChecksumOutcomeLenient(op, fetched, text, d) ==
    IF ~fetched THEN "skipped"
    ELSE IF op = "git"
    THEN LET expectedHash == TrimSpace(text)
             parts == Fields(expectedHash)
             first == IF Len(parts) > 0 THEN parts[1] ELSE expectedHash
         IN  IF verifyFileChecksum(FileState(d.file), d.content, first) # Nil
             THEN "mismatch" ELSE "verified"
    ELSE LET found == findChecksumInSHASUMS(text, msiFilename)
         IN  IF found.err # Nil THEN "noEntry"
             ELSE IF verifyFileChecksum(FileState(d.file), d.content, found.hash) # Nil
             THEN "mismatch" ELSE "verified"

\* An integrity check that requires the checksum file for Git as well.
ChecksumOutcomeStrict(op, fetched, text, d) ==
    IF ~fetched THEN "noManifest"
    ELSE ChecksumOutcomeLenient(op, fetched, text, d)

\* An integrity check that does not compare the digests.
ChecksumOutcomeUncompared(op, fetched, text, d) ==
    IF ~fetched THEN (IF op = "git" THEN "skipped" ELSE "noManifest")
    ELSE IF op = "git" THEN "verified"
    ELSE IF findChecksumInSHASUMS(text, msiFilename).err # Nil THEN "noEntry"
    ELSE "verified"

\* The integrity check between the download and the execution, in
\* installNodeViaMSI (the manifest is mandatory) and installGitViaDownload
\* (the checksum file is optional): applied to the text fetched, if any, and
\* the download d.
ChecksumOutcome(op, fetched, text, d) ==
    IF op = "git"
    THEN IF ~fetched THEN "skipped"
         ELSE LET expectedHash == TrimSpace(text)
                  parts == Fields(expectedHash)
                  first == IF Len(parts) > 0 THEN parts[1] ELSE expectedHash
              IN  IF verifyFileChecksum(FileState(d.file), d.content, first) # Nil
                  THEN "mismatch" ELSE "verified"
    ELSE IF ~fetched THEN "noManifest"
    ELSE LET found == findChecksumInSHASUMS(text, msiFilename)
         IN  IF found.err # Nil THEN "noEntry"
             ELSE IF verifyFileChecksum(FileState(d.file), d.content, found.hash) # Nil
             THEN "mismatch" ELSE "verified"

ChecksumCause(outcome) ==
    IF outcome = "noManifest"
    THEN "failed to verify download integrity (could not fetch checksums)"
    ELSE IF outcome = "noEntry"
    THEN "failed to verify download integrity (checksum not found)"
    ELSE "installer integrity check failed: checksum mismatch"

\* The integrity check of the downloaded installer and the events around it.
InstChecksum ==
    /\ instPc = "checksum"
    /\ \E fetched \in {instCtx = "none", FALSE}, lines \in ChecksumFiles(instOp) :
         LET step == StepName(instOp)
             e1 == Emit(events, step, "installing", "verifying download integrity", 55)
             http2 == Append(httpLog, "checksum")
             outcome == ChecksumOutcome(instOp, fetched, JoinLines(lines, 1), dest)
             h2 == [hist EXCEPT !.checksum =
                       [tried |-> TRUE, fetched |-> fetched,
                        lines |-> IF fetched THEN lines ELSE <<>>]]
         IN  IF outcome = "skipped"
             THEN InstStep("run", instRet,
                           Emit(e1, step, "installing",
                                "warning: could not fetch checksum, skipping verification", 60),
                           http2, execLog, pathLog, dlAttempt, h2)
             ELSE IF outcome = "verified"
             THEN InstStep("run", instRet,
                           Emit(e1, step, "installing", "download integrity verified", 65),
                           http2, execLog, pathLog, dlAttempt, h2)
             ELSE InstStep("done", WrapMessage(FailPrefix(instOp), ChecksumCause(outcome)),
                           Emit(e1, step, "error", FailMessage(instOp), 0),
                           http2, execLog, pathLog, dlAttempt, h2)

\* msiexec /qn /i msiPath, or the Git installer with its silent flags.
InstRunInstaller ==
    /\ instPc = "run"
    /\ \E ok \in {instCtx = "none", FALSE} :
         LET step == StepName(instOp)
             e1 == Emit(events, step, "installing", "running installer", 70)
             ran == Append(execLog, IF instOp = "git" THEN "Git-installer.exe" ELSE "msiexec")
         IN  IF ok
             THEN InstStep("poll", instRet, e1, httpLog, ran, pathLog, dlAttempt, hist)
             ELSE InstFail(e1, httpLog, ran, "installer failed")

\* return i.pollForCommand(target, 30): nil, or the cancellation error.
InstPoll ==
    /\ instPc = "poll"
    /\ \/ /\ Target(instOp) \in onPath \/ instCtx = "none"
          /\ InstStep("finish", instRet, events, httpLog, execLog, pathLog,
                      dlAttempt, hist)
       \/ /\ Target(instOp) \notin onPath
          /\ instCtx # "none"
          /\ InstFail(events, httpLog, execLog, "installation cancelled")

\* An AddToPath whose failure ends the installation.
AddToPathFatalOnFailure(added) == added = "AddToPath failed"

\* Whether the outcome of AddToPath ends the installation: the body of
\* "if err := pathutil.AddToPath(...); err != nil" only emits.
AddToPathFatal(added) == FALSE

\* After the direct download: RefreshPath, AddToPath, the verification and
\* the terminal event.
InstFinish ==
    /\ instPc = "finish"
    /\ \E added \in {"AddToPath ok", "AddToPath failed"},
          verifyOk \in {instCtx = "none", FALSE} :
         LET step == StepName(instOp)
             plog2 == pathLog \o <<"RefreshPath", added>>
             e1 == IF added = "AddToPath failed"
                   THEN Emit(events, step, "installing",
                             "warning: could not add to PATH", 90)
                   ELSE events
         IN  IF AddToPathFatal(added)
             THEN InstStep("done", Errorf(<<"failed to add to PATH">>, ""),
                           Emit(e1, step, "error", "could not add to PATH", 0),
                           httpLog, execLog, plog2, dlAttempt, hist)
             ELSE IF verifyOk
             THEN InstStep("done", Nil,
                           Emit(Emit(e1, step, "installing", "verified", 95),
                                step, "completed", "installed successfully", 100),
                           httpLog, execLog, plog2, dlAttempt, hist)
             ELSE InstStep("done",
                           Errorf(<<instOp, " installed but verification failed: ",
                                    "command not found after installation">>,
                                  "command not found after installation"),
                           Emit(e1, step, "error", "verification failed", 0),
                           httpLog, execLog, plog2, dlAttempt, hist)

\* InstallClaudeCode: findNpm.
InstFindNpm ==
    /\ instPc = "npm"
    /\ \E fallback \in BOOLEAN :
         IF "npm" \in onPath \/ fallback
         THEN InstStep("npmInstall", instRet,
                       Emit(events, "claudecode", "installing", "installing via npm", 20),
                       httpLog, execLog, pathLog, dlAttempt, hist)
         ELSE InstStep("done",
                       Errorf(<<"npm is required to install Claude Code: ",
                                "npm not found in PATH">>, "npm not found in PATH"),
                       Emit(events, "claudecode", "error", "npm is not available", 0),
                       httpLog, execLog, pathLog, dlAttempt, hist)

\* InstallClaudeCode: npm install -g @anthropic-ai/claude-code.
InstNpmInstall ==
    /\ instPc = "npmInstall"
    /\ \E ok \in {instCtx = "none", FALSE} :
         LET ran == Append(execLog, "npm install")
         IN  IF ok
             THEN InstStep("claudePoll", instRet, events, httpLog, ran, pathLog,
                           dlAttempt, hist)
             ELSE InstFail(events, httpLog, ran, "npm install failed")

\* The passes of the polling loop of InstallClaudeCode (20 in the code),
\* scaled.
claudePollAttempts == 2

\* InstallClaudeCode: one test of the polling loop. The loop ends when its
\* passes are used up or exec.LookPath("claude") succeeds, and the event
\* that follows it is emitted; else the pass goes to sleep.
InstClaudeLook ==
    /\ instPc = "claudePoll"
    /\ \E found \in BOOLEAN :
         IF claudeAttempt >= claudePollAttempts \/ found
         THEN InstStep("claudeVerify", instRet,
                       Emit(events, "claudecode", "installing",
                            "verifying installation", 80),
                       httpLog, execLog, pathLog, dlAttempt, hist)
         ELSE InstStep("claudeSleep", instRet, events, httpLog, execLog, pathLog,
                       dlAttempt, hist)

\* InstallClaudeCode: time.Sleep(1 * time.Second) returns, whatever has
\* become of the context, and attempt++.
InstClaudeSleep ==
    /\ instPc = "claudeSleep"
    /\ instPc' = "claudePoll"
    /\ claudeAttempt' = claudeAttempt + 1
    /\ hist' = [hist EXCEPT !.blindSleeps =
                   IF instCtx # "none" THEN @ + 1 ELSE @]
    /\ UNCHANGED <<instOp, instRet, instCtx, events, onPath, httpLog, execLog,
                   pathLog, dlAttempt, dest>>
    /\ UNCHANGED instOthers

\* InstallClaudeCode: verifyClaudeCode and the terminal event.
InstClaudeVerify ==
    /\ instPc = "claudeVerify"
    /\ \E verifyOk \in {instCtx = "none", FALSE} :
         IF verifyOk
         THEN InstStep("done", Nil,
                       Emit(Emit(events, "claudecode", "installing", "verified", 95),
                            "claudecode", "completed", "installed successfully", 100),
                       httpLog, execLog, pathLog, dlAttempt, hist)
         ELSE InstStep("done",
                       Errorf(<<"Claude Code installed but verification failed: ",
                                "claude not found in PATH">>, "claude not found in PATH"),
                       Emit(events, "claudecode", "error", "verification failed", 0),
                       httpLog, execLog, pathLog, dlAttempt, hist)

\* UpdateClaudeCode: the first event and findNpm.
UpdFindNpm ==
    /\ instPc = "start"
    /\ instOp = "claudeCodeUpdate"
    /\ \E fallback \in BOOLEAN :
         LET e1 == Emit(events, "claudeCodeUpdate", "installing", "updating Claude Code", 10)
         IN  IF "npm" \in onPath \/ fallback
             THEN InstStep("updNpm", instRet, e1, httpLog, execLog, pathLog,
                           dlAttempt, hist)
             ELSE InstStep("done",
                           WrapMessage("npm is required to update Claude Code: ",
                                       "npm not found in PATH"),
                           Emit(e1, "claudeCodeUpdate", "error", "npm is not available", 0),
                           httpLog, execLog, pathLog, dlAttempt, hist)

\* UpdateClaudeCode: npm install -g @anthropic-ai/claude-code@latest.
UpdNpmInstall ==
    /\ instPc = "updNpm"
    /\ \E ok \in {instCtx = "none", FALSE} :
         LET ran == Append(execLog, "npm install @latest")
         IN  IF ok
             THEN InstStep("updVerify", instRet,
                           Emit(events, "claudeCodeUpdate", "installing",
                                "verifying update", 80),
                           httpLog, ran, pathLog, dlAttempt, hist)
             ELSE InstFail(events, httpLog, ran, "exit status 1")

\* UpdateClaudeCode: verifyClaudeCode and the terminal event.
UpdVerify ==
    /\ instPc = "updVerify"
    /\ \E verifyOk \in {instCtx = "none", FALSE} :
         IF verifyOk
         THEN InstStep("done", Nil,
                       Emit(Emit(events, "claudecode", "installing", "verified", 95),
                            "claudeCodeUpdate", "completed", "updated successfully", 100),
                       httpLog, execLog, pathLog, dlAttempt, hist)
         ELSE InstStep("done",
                       WrapMessage("update verification failed: ",
                                   "claude not found in PATH"),
                       Emit(events, "claudeCodeUpdate", "error",
                            "update completed but verification failed", 0),
                       httpLog, execLog, pathLog, dlAttempt, hist)

\* The caller cancels the Installer's context while the operation runs.
InstCancel ==
    /\ instPc \notin {"idle", "done"}
    /\ instCtx = "none"
    /\ instCtx' = "canceled"
    /\ UNCHANGED <<instOp, instPc, instRet, events, onPath, httpLog, execLog,
                   pathLog, dlAttempt, claudeAttempt, dest, hist>>
    /\ UNCHANGED instOthers

InstNext ==
    \/ InstCheckExisting
    \/ InstWinget
    \/ InstResolveURL
    \/ InstTempDir
    \/ InstDownloadAttempt
    \/ InstBackoff
    \/ InstChecksum
    \/ InstRunInstaller
    \/ InstPoll
    \/ InstFinish
    \/ InstFindNpm
    \/ InstNpmInstall
    \/ InstClaudeLook
    \/ InstClaudeSleep
    \/ InstClaudeVerify
    \/ UpdFindNpm
    \/ UpdNpmInstall
    \/ UpdVerify
    \/ InstCancel

SpecInst == InstInit /\ [][InstNext]_vars

LastEvent == events[Len(events)]

\* What an observer of the operation sees of the two strategies.
WingetAttempted == "winget install" \in Range(execLog)

DirectDownloadStarted ==
    \E k \in DOMAIN events : events[k].message = "downloading installer"

\* C9: when the target command already resolves on the search path at the
\* call, InstallNodeJS, InstallGit and InstallClaudeCode emit 'completed' at
\* 100%, return nil, and issue no HTTP request, execute no package manager
\* or installer and make no PATH change.
C9_AlreadyInstalledShortCircuit ==
    (instOp \in InstallOps /\ instPc \notin {"idle", "start"}
       /\ Target(instOp) \in onPath)
        => /\ instPc = "done"
           /\ instRet = Nil
           /\ LastEvent.status = "completed"
           /\ LastEvent.percentage = 100
           /\ LastEvent.step = StepName(instOp)
           /\ \A k \in DOMAIN events : events[k].status # "error"
           /\ httpLog = <<>>
           /\ execLog = <<>>
           /\ pathLog = <<>>

\* Git is on the search path, and so is winget: InstallGit has returned and
\* nothing was run.
C9_Witness ==
    /\ instPc = "done"
    /\ instOp = "git"
    /\ onPath = {"git", "winget"}
    /\ instRet = Nil
    /\ Len(events) = 2
    /\ execLog = <<>>

\* C10: for Node.js or Git not on the search path, winget is attempted if
\* and only if it is detectable; the direct download is started if and only
\* if winget is unavailable, or its install failed, or the verification
\* after its install failed; and when the winget install and verification
\* both succeed the operation ends with 'completed' at 100% and the direct
\* download never starts.
C10_StrategyOrder ==
    (instOp \in {"nodejs", "git"} /\ Target(instOp) \notin onPath
       /\ instPc \notin {"idle", "start"})
        => /\ WingetAttempted => isWingetAvailable(onPath)
           /\ (isWingetAvailable(onPath) /\ instPc # "winget") => WingetAttempted
           /\ DirectDownloadStarted
                <=> \/ ~isWingetAvailable(onPath)
                    \/ hist.wingetInstall = "failed"
                    \/ hist.wingetVerify = "failed"
           /\ (hist.wingetInstall = "ok" /\ hist.wingetVerify = "ok")
                => /\ instPc = "done"
                   /\ instRet = Nil
                   /\ LastEvent.status = "completed"
                   /\ LastEvent.percentage = 100
                   /\ ~DirectDownloadStarted
                   /\ httpLog = <<>>

\* winget installed Node.js but the verification after it failed, and the
\* direct download then installed it.
C10_Witness ==
    /\ instOp = "nodejs"
    /\ instPc = "done"
    /\ hist.wingetInstall = "ok"
    /\ hist.wingetVerify = "failed"
    /\ DirectDownloadStarted
    /\ "msiexec" \in Range(execLog)
    /\ instRet = Nil

\* What the checksum file fetched lists for the download: the digest of
\* the first well-formed line for the MSI in a Node.js manifest, the first
\* token of a Git checksum file.
ListedFor(lines, op) ==
    IF op = "git"
    THEN {k \in DOMAIN lines : k = 1}
    ELSE {k \in DOMAIN lines : /\ lines[k].form \in {"plain", "star"}
                               /\ lines[k].name = msiFilename
                               /\ IsDigest64(lines[k].digest)}

HasEntry == ListedFor(hist.checksum.lines, instOp) # {}

ListedDigest ==
    hist.checksum.lines[Min(ListedFor(hist.checksum.lines, instOp))].digest

DigestMatches == HasEntry /\ Sha256Hex(dest.content) = ListedDigest

InstallerRan ==
    "msiexec" \in Range(execLog) \/ "Git-installer.exe" \in Range(execLog)

Aborted ==
    /\ instPc = "done"
    /\ ~instRet.isNil
    /\ LastEvent.status = "error"
    /\ ~InstallerRan

\* C13: in the Node.js direct download msiexec runs only after the manifest
\* was fetched, held an entry for the MSI and the file's digest matched it;
\* when the manifest cannot be fetched, holds no entry, or the digest
\* differs, the install aborts with an error and msiexec never runs.
C13_NodeChecksumMandatory ==
    instOp = "nodejs"
        => /\ InstallerRan => /\ hist.downloaded
                              /\ hist.checksum.fetched
                              /\ DigestMatches
           /\ (hist.checksum.tried /\ ~(hist.checksum.fetched /\ DigestMatches))
                => Aborted

\* The manifest listed another file first and the MSI with a '*' before its
\* name; the digest matched and msiexec ran.
C13_Witness ==
    /\ instOp = "nodejs"
    /\ instPc = "done"
    /\ instRet = Nil
    /\ Len(hist.checksum.lines) = 2
    /\ DigestMatches
    /\ "msiexec" \in Range(execLog)

\* C14: in the Git direct download, when the checksum file cannot be
\* fetched a warning event is emitted and the installer is still run; when
\* it is fetched and the file's digest differs from it, the install aborts
\* with an error and the installer is not run.
C14_GitChecksumBestEffort ==
    (instOp = "git" /\ hist.checksum.tried)
        => /\ ~hist.checksum.fetched
                => /\ \E k \in DOMAIN events :
                         /\ events[k].percentage = 60
                         /\ events[k].status = "installing"
                         /\ events[k].step = "git"
                   /\ instPc # "run" => "Git-installer.exe" \in Range(execLog)
           /\ (hist.checksum.fetched /\ ~DigestMatches) => Aborted

\* The checksum file could not be fetched; Git was installed all the same.
C14_Witness ==
    /\ instOp = "git"
    /\ instPc = "done"
    /\ instRet = Nil
    /\ hist.checksum.tried
    /\ ~hist.checksum.fetched
    /\ "Git-installer.exe" \in Range(execLog)

\* C15: a download returned as success left a file of at most
\* maxDownloadSize at the destination, and an installer that was executed
\* where a checksum was available has the digest the checksum names.
C15_DownloadInvariants ==
    /\ hist.downloaded => /\ dest.file.exists
                          /\ dest.file.size <= maxDownloadSize
    /\ (InstallerRan /\ hist.checksum.fetched /\ HasEntry)
         => Sha256Hex(dest.content) = ListedDigest

\* A body of exactly the limit was downloaded, the Git checksum file named
\* its digest, and the installer ran.
C15_Witness ==
    /\ instOp = "git"
    /\ hist.downloaded
    /\ dest.file.size = maxDownloadSize
    /\ hist.checksum.fetched
    /\ Len(hist.checksum.lines) = 1
    /\ hist.checksum.lines[1].form = "plain"
    /\ "Git-installer.exe" \in Range(execLog)

\* C16: whenever InstallNodeJS, InstallGit, InstallClaudeCode or
\* UpdateClaudeCode returns an error, the last event emitted before the
\* return is an 'error' event for the operation's step, and the error
\* returned wraps its cause, whose message it carries.
C16_ErrorsEmittedAndWrapped ==
    (instPc = "done" /\ instRet # Nil)
        => /\ events # <<>>
           /\ LastEvent.status = "error"
           /\ LastEvent.step = StepName(instOp)
           /\ instRet.wraps # ""
           /\ instRet.wraps = instRet.text[Len(instRet.text)]

\* UpdateClaudeCode ran npm, which failed.
C16_Witness ==
    /\ instOp = "claudeCodeUpdate"
    /\ instPc = "done"
    /\ execLog = <<"npm install @latest">>
    /\ instRet = WrapMessage("failed to update Claude Code: ", "exit status 1")
    /\ LastEvent.status = "error"

\* C22: every blocking wait of an install operation ends promptly once the
\* signal has fired: no wait runs to its full duration under a context that
\* is done.
C22_WaitsObserveCancellation ==
    hist.blindSleeps = 0

\* C27: within one install operation, the percentages of the "installing"
\* events of a step never decrease.
C27_MonotonePercentages ==
    \A j \in DOMAIN events : \A k \in DOMAIN events :
        (/\ j < k
         /\ events[j].step = events[k].step
         /\ events[j].status = "installing"
         /\ events[k].status = "installing")
            => events[j].percentage <= events[k].percentage

\* C32: in the direct-download path the append to the persistent PATH comes
\* first and the refresh of the process PATH after it, before the final
\* verification: every AddToPath in the log is followed by a RefreshPath.
C32_AppendThenRefresh ==
    \A k \in DOMAIN pathLog :
        pathLog[k] \in {"AddToPath ok", "AddToPath failed"}
            => \E j \in DOMAIN pathLog : j > k /\ pathLog[j] = "RefreshPath"

IsWarning(e) == e.status = "installing" /\ e.percentage = 90

IsVerified(e) == e.status = "installing" /\ e.percentage = 95

\* C33: when AddToPath failed, one warning "installing" event was emitted
\* and no "error" event for it; the operation went on to the verification,
\* and it completed with nil exactly when the verification passed, and else
\* ended with the verification's error.
C33_AddToPathNonFatal ==
    (instPc = "done" /\ "AddToPath failed" \in Range(pathLog))
        => /\ Cardinality({k \in DOMAIN events : IsWarning(events[k])}) = 1
           /\ Cardinality({k \in DOMAIN events : events[k].status = "error"}) <= 1
           /\ IF \E k \in DOMAIN events : IsVerified(events[k])
              THEN /\ instRet = Nil
                   /\ LastEvent.status = "completed"
                   /\ \A k \in DOMAIN events : events[k].status # "error"
              ELSE /\ instRet # Nil
                   /\ instRet.wraps = "command not found after installation"
                   /\ LastEvent.status = "error"
                   /\ LastEvent.message = "verification failed"

\* AddToPath failed and the installation completed.
C33_Witness ==
    /\ instPc = "done"
    /\ pathLog = <<"RefreshPath", "AddToPath failed">>
    /\ instRet = Nil
    /\ LastEvent.status = "completed"
    /\ \E k \in DOMAIN events : IsWarning(events[k])

IsTerminal(e) == e.status \in {"completed", "error"}

\* C39: when InstallNodeJS, InstallGit or InstallClaudeCode has returned, the
\* sink has received exactly one "completed" or "error" event, it is the
\* last event, and nil was returned exactly when it is "completed".
C39_OneTerminalEvent ==
    (instPc = "done" /\ instOp \in InstallOps)
        => /\ Cardinality({k \in DOMAIN events : IsTerminal(events[k])}) = 1
           /\ IsTerminal(LastEvent)
           /\ LastEvent.step = StepName(instOp)
           /\ instRet = Nil <=> LastEvent.status = "completed"

\* A direct download failed after the winget strategy had been tried: the
\* one terminal event is the error, after several "installing" events.
C39_Witness ==
    /\ instPc = "done"
    /\ instOp \in {"nodejs", "git"}
    /\ WingetAttempted
    /\ instRet # Nil
    /\ LastEvent.status = "error"
    /\ Len(events) > 3

\* C40: every event the sink receives during an operation carries the step
\* identifier of that operation.
C40_OwnStepIdentifier ==
    \A k \in DOMAIN events : events[k].step = StepName(instOp)

----------------------------------------------------------------------------
(* The HTTP requests of a direct download: getGitDownloadURL and           *)
(* validateGitHubDownloadURL, then downloadFileWithRetry, then             *)
(* fetchTextContent.  A raw URL is the sequence of its lexical tokens:     *)
(* words, and the separators ":", "//", "/" and "@".                       *)

RECURSIVE Join(_)
Join(tokens) == IF tokens = <<>> THEN "" ELSE Head(tokens) \o Join(Tail(tokens))

PortNumbers == {"443", "8443"}

\* strings.ToLower of a scheme
LowerScheme(word) == IF word = "HTTPS" THEN "https" ELSE IF word = "HTTP" THEN "http" ELSE word

\* url.Parse: the scheme is what precedes the first ":".
HasScheme(rawURL) ==
    Len(rawURL) >= 2 /\ rawURL[2] = ":" /\ rawURL[1] \notin {":", "//", "/", "@"}

AfterScheme(rawURL) ==
    IF HasScheme(rawURL) THEN SubSeq(rawURL, 3, Len(rawURL)) ELSE rawURL

\* url.Parse: the authority is what follows "//" up to the next "/".
Authority(rest) ==
    LET slashes == {k \in 2..Len(rest) : rest[k] = "/"}
    IN  IF Len(rest) >= 1 /\ rest[1] = "//"
        THEN SubSeq(rest, 2, IF slashes = {} THEN Len(rest) ELSE Min(slashes) - 1)
        ELSE <<>>

\* url.Parse: the host and port follow the last "@" of the authority.
HostPort(authority) ==
    LET ats == {k \in DOMAIN authority : authority[k] = "@"}
    IN  IF ats = {} THEN authority
        ELSE SubSeq(authority, Max(ats) + 1, Len(authority))

\* url.Parse: the port follows the last ":" of the host and port.
HostOf(hostport) ==
    LET colons == {k \in DOMAIN hostport : hostport[k] = ":"}
    IN  IF colons = {} THEN hostport ELSE SubSeq(hostport, 1, Max(colons) - 1)

PortOf(hostport) ==
    LET colons == {k \in DOMAIN hostport : hostport[k] = ":"}
    IN  IF colons = {} THEN <<>> ELSE SubSeq(hostport, Max(colons) + 1, Len(hostport))

\* url.Parse: a port is a number.
ParsePort(scheme, host, port) ==
    IF Len(port) > 1 \/ \E k \in DOMAIN port : port[k] \notin PortNumbers
    THEN [err |-> Errorf(<<"parse: ", "invalid port ", Join(port)>>, ""),
          url |-> URL("", "")]
    ELSE [err |-> Nil,
          url |-> [Scheme |-> scheme,
                   Host |-> [hostname |-> Join(host), port |-> Join(port)]]]

ParseHostPort(scheme, hostport) == ParsePort(scheme, HostOf(hostport), PortOf(hostport))

\* url.Parse(rawURL)
Parse(rawURL) ==
    IF rawURL # <<>> /\ rawURL[1] = ":"
    THEN [err |-> Errorf(<<"parse: ", "missing protocol scheme">>, ""),
          url |-> URL("", "")]
    ELSE ParseHostPort(IF HasScheme(rawURL) THEN LowerScheme(rawURL[1]) ELSE "",
                       HostPort(Authority(AfterScheme(rawURL))))

\* validateGitHubDownloadURL from the result of url.Parse on, with the hosts
\* it compares with.
validateParsed(trustedHosts, parsed) ==
    IF parsed.err # Nil
    THEN Wrap("invalid download URL: ", parsed.err)
    ELSE IF parsed.url.Scheme # "https"
    THEN Errorf(<<"download URL must use HTTPS">>, "")
    ELSE IF \E k \in DOMAIN trustedHosts : Hostname(parsed.url) = trustedHosts[k]
    THEN Nil
    ELSE Errorf(<<"download URL host ", Hostname(parsed.url), " is not trusted">>, "")

\* A validation against allTrustedHosts in place of gitHubTrustedHosts.
validateAnyTrustedHost(rawURL) == validateParsed(AllTrustedHosts, Parse(rawURL))

validateGitHubDownloadURL(rawURL) == validateParsed(GitHubTrustedHosts, Parse(rawURL))

\* strings.ToLower, strings.Contains and strings.HasSuffix
ToLower(s) == [k \in DOMAIN s |-> ToLowerChar(s[k])]

Contains(s, substr) ==
    \E k \in 0..(Len(s) - Len(substr)) : SubSeq(s, k + 1, k + Len(substr)) = substr

HasSuffix(s, suffix) ==
    Len(s) >= Len(suffix) /\ SubSeq(s, Len(s) - Len(suffix) + 1, Len(s)) = suffix

\* arch, on every GOARCH but 386
Arch == <<"6", "4", "-", "b", "i", "t">>

\* The test of one asset in the loops of getGitDownloadURL; the first loop
\* wants the architecture in the name.
IsInstallerName(name, wantArch, arch) ==
    /\ wantArch => Contains(name, arch)
    /\ HasSuffix(name, <<".", "e", "x", "e">>)
    /\ ~Contains(name, <<"p", "o", "r", "t", "a", "b", "l", "e">>)
    /\ ~Contains(name, <<"m", "i", "n", "g", "i", "t">>)

IsInstallerAsset(asset, wantArch) == IsInstallerName(ToLower(asset.Name), wantArch, Arch)

\* One loop over release.Assets: the position of the asset it returns, the
\* first that passes both tests, 0 when it ends without returning.
ScanAssets(assets, wantArch) ==
    LET passing == {k \in DOMAIN assets :
                      /\ IsInstallerAsset(assets[k], wantArch)
                      /\ validateGitHubDownloadURL(assets[k].BrowserDownloadURL) = Nil}
    IN  IF passing = {} THEN 0 ELSE Min(passing)

RawURL(scheme, hostname, path) == <<scheme, ":", "//", hostname>> \o path

\* gitReleasesAPIURL
gitReleasesAPIURL == RawURL("https", "api.github.com", <<"/", "repos", "/", "latest">>)

\* nodeDownloadBaseURL with the path of the MSI, and with that of the manifest
nodeMsiURL == RawURL("https", "nodejs.org", <<"/", "dist", "/", "node.msi">>)

shasumsURL == RawURL("https", "nodejs.org", <<"/", "dist", "/", "SHASUMS256.txt">>)

\* What one request meets: do: the transport fails or a response arrives;
\* chain: the URLs the servers redirect to before it; status: its StatusCode.
Answer(do, chain, status) == [do |-> do, chain |-> chain, status |-> status]

Answers ==
    {Answer("ok", <<>>, 200), Answer("error", <<>>, 200), Answer("ok", <<>>, 404)}
        \cup {Answer("ok", chain, 200) : chain \in RedirectChains}

\* The end of a request that was sent: the gate's refusal, or the test of
\* the status.
FetchSent(sent, answer, prefix) ==
    IF sent.err # Nil
    THEN [requests |-> sent.requests, err |-> Wrap(prefix, sent.err)]
    ELSE IF answer.status # 200
    THEN [requests |-> sent.requests, err |-> Errorf(<<"status ", "404">>, "")]
    ELSE [requests |-> sent.requests, err |-> Nil]

\* A request from the result of url.Parse on.
FetchParsed(trustedHosts, parsed, answer, prefix) ==
    IF parsed.err # Nil
    THEN [requests |-> <<>>, err |-> Wrap("failed to create request: ", parsed.err)]
    ELSE IF answer.do = "error"
    THEN [requests |-> <<parsed.url>>,
          err |-> Errorf(<<prefix, "connection refused">>, "connection refused")]
    ELSE FetchSent(ClientDo(trustedHosts, parsed.url, answer.chain), answer, prefix)

\* http.NewRequestWithContext and client.Do with the gate of trustedHosts,
\* and the test of the status, as downloadFile, fetchTextContent and
\* getGitDownloadURL make them: the requests issued and the error.
Fetch(trustedHosts, rawURL, answer, prefix) ==
    FetchParsed(trustedHosts, Parse(rawURL), answer, prefix)

\* What getGitDownloadURL returns once the release is decoded, first and
\* second being what its two loops found.
PickAsset(requests, release, first, second) ==
    IF first # 0
    THEN [url |-> release[first].BrowserDownloadURL, err |-> Nil,
          requests |-> requests, decoded |-> TRUE]
    ELSE IF second # 0
    THEN [url |-> release[second].BrowserDownloadURL, err |-> Nil,
          requests |-> requests, decoded |-> TRUE]
    ELSE [url |-> <<>>,
          err |-> Errorf(<<"could not find Git installer in latest release">>, ""),
          requests |-> requests, decoded |-> TRUE]

\* getGitDownloadURL from the answer of the API on.
AfterApi(got, release) ==
    IF got.err # Nil
    THEN [url |-> <<>>, err |-> got.err, requests |-> got.requests, decoded |-> FALSE]
    ELSE PickAsset(got.requests, release,
                   ScanAssets(release, TRUE), ScanAssets(release, FALSE))

\* getGitDownloadURL() against an answer of the API and the release it
\* decodes: the URL, the error, the requests issued, and whether the
\* release was decoded.
getGitDownloadURL(answer, release) ==
    AfterApi(Fetch(GitHubTrustedHosts, gitReleasesAPIURL, answer,
                   "failed to fetch Git releases: "),
             release)

\* The assets a release may list.
MaxAssets == 2

NameGit64 == <<"G", "i", "t", "-", "6", "4", "-", "b", "i", "t", ".", "e", "x", "e">>
NameGit64Upper == <<"G", "I", "T", "-", "6", "4", "-", "B", "I", "T", ".", "E", "X", "E">>
NameGit32 == <<"G", "i", "t", "-", "3", "2", "-", "b", "i", "t", ".", "e", "x", "e">>
NamePortable == <<"P", "o", "r", "t", "a", "b", "l", "e", "G", "i", "t", "-", "6", "4", "-", "b", "i", "t", ".", "e", "x", "e">>
NameMinGit == <<"M", "i", "n", "G", "i", "t", "-", "6", "4", "-", "b", "i", "t", ".", "e", "x", "e">>
NameZip == <<"G", "i", "t", "-", "6", "4", "-", "b", "i", "t", ".", "z", "i", "p">>

Asset(name, rawURL) == [Name |-> name, BrowserDownloadURL |-> rawURL]

InstallerPath == <<"/", "Git.exe">>

ReleaseAssets ==
    {Asset(NameGit64, RawURL("https", "github.com", InstallerPath)),
     Asset(NameGit64Upper, <<"HTTPS", ":", "//", "github.com", ":", "443">> \o InstallerPath),
     Asset(NameGit64, RawURL("https", "github.com", <<>>)),
     Asset(NameGit64, RawURL("https", "evil.com", InstallerPath)),
     Asset(NameGit64, RawURL("http", "github.com", InstallerPath)),
     Asset(NameGit64, <<"https", ":", "//", "github.com", "@", "evil.com">> \o InstallerPath),
     Asset(NameGit64, <<":", "//", "github.com">> \o InstallerPath),
     Asset(NameGit64, RawURL("https", "nodejs.org", InstallerPath)),
     Asset(NameGit32, RawURL("https", "objects.githubusercontent.com", InstallerPath)),
     Asset(NameGit32, RawURL("https", "github.com.evil.com", InstallerPath)),
     Asset(NamePortable, RawURL("https", "github.com", InstallerPath)),
     Asset(NameMinGit, RawURL("https", "github.com", InstallerPath)),
     Asset(NameZip, RawURL("https", "github.com", InstallerPath))}

Releases == UNION {[1..n -> ReleaseAssets] : n \in 0..MaxAssets}

Call(phase, trustedHosts, chain, got) ==
    [phase |-> phase, trusted |-> trustedHosts, chain |-> chain,
     requests |-> got.requests, err |-> got.err]

NetInit ==
    /\ PollIdle
    /\ GateIdle
    /\ SumsIdle
    /\ FileIdle
    /\ VerIdle
    /\ InstIdle
    /\ DlIdle
    /\ AddIdle
    /\ VfyIdle
    /\ ArchIdle
    /\ ChkIdle
    /\ PathIdle
    /\ EmitIdle
    /\ AppIdle
    /\ netPc = "resolve"
    /\ netOp \in {"nodejs", "git"}
    /\ netRelease \in IF netOp = "git" THEN Releases ELSE {<<>>}
    /\ netApi = "none"
    /\ netURL = <<>>
    /\ netTry = 0
    /\ netCalls = {}
    /\ netRet = NoReturn

\* installGitViaDownload with r returned by getGitDownloadURL.
NetResolved(r, chain) ==
    /\ netApi' = IF r.decoded THEN "decoded" ELSE "failed"
    /\ netCalls' = netCalls \cup {Call("api", GitHubTrustedHosts, chain, r)}
    /\ netURL' = r.url
    /\ IF r.err # Nil
       THEN /\ netPc' = "done"
            /\ netRet' = Wrap("failed to get Git download URL: ", r.err)
       ELSE /\ netPc' = "download"
            /\ UNCHANGED netRet

\* installNodeViaMSI builds downloadURL; installGitViaDownload asks
\* getGitDownloadURL for it.
NetResolve ==
    /\ netPc = "resolve"
    /\ IF netOp = "nodejs"
       THEN /\ netURL' = nodeMsiURL
            /\ netPc' = "download"
            /\ UNCHANGED <<netApi, netCalls, netRet>>
       ELSE \E answer \in Answers :
              NetResolved(getGitDownloadURL(answer, netRelease), answer.chain)
    /\ UNCHANGED <<netOp, netRelease, netTry>>
    /\ UNCHANGED netOthers

\* downloadFileWithRetry after a downloadFile whose request ended as got.
NetDownloaded(got, chain) ==
    /\ netCalls' = netCalls \cup {Call("download", AllTrustedHosts, chain, got)}
    /\ IF got.err = Nil
       THEN /\ netPc' = "checksum"
            /\ UNCHANGED <<netTry, netRet>>
       ELSE IF netTry + 1 < defaultMaxRetries
       THEN /\ netTry' = netTry + 1
            /\ UNCHANGED <<netPc, netRet>>
       ELSE /\ netPc' = "done"
            /\ netTry' = netTry + 1
            /\ netRet' = Wrap("download failed after 3 attempts: ", got.err)

\* One pass of downloadFileWithRetry: the request of downloadFile.
NetDownload ==
    /\ netPc = "download"
    /\ \E answer \in Answers :
         NetDownloaded(Fetch(AllTrustedHosts, netURL, answer, "failed to download file: "),
                       answer.chain)
    /\ UNCHANGED <<netOp, netRelease, netApi, netURL>>
    /\ UNCHANGED netOthers

\* checksumURL := downloadURL + ".sha256", and shasumsURL
checksumURL(op, downloadURL) ==
    IF op = "git" THEN downloadURL \o <<".sha256">> ELSE shasumsURL

\* The installer after a fetchTextContent whose request ended as got: Git
\* goes on without the checksum when it fails, Node.js returns the error.
NetFetched(got, chain) ==
    /\ netCalls' = netCalls \cup {Call("checksum", AllTrustedHosts, chain, got)}
    /\ netRet' = IF got.err # Nil /\ netOp = "nodejs"
                 THEN Wrap("could not fetch checksums: ", got.err)
                 ELSE Nil

\* fetchTextContent(checksumURL)
NetChecksum ==
    /\ netPc = "checksum"
    /\ \E answer \in Answers :
         NetFetched(Fetch(AllTrustedHosts, checksumURL(netOp, netURL), answer,
                          "failed to fetch: "),
                    answer.chain)
    /\ netPc' = "done"
    /\ UNCHANGED <<netOp, netRelease, netApi, netURL, netTry>>
    /\ UNCHANGED netOthers

NetNext ==
    \/ NetResolve
    \/ NetDownload
    \/ NetChecksum

SpecNet == NetInit /\ [][NetNext]_vars

\* A redirect the policy of the call refuses: the position in the chain of
\* the first URL that is not https, not on a trusted host, or beyond the
\* limit; 0 when there is none.
FirstRefused(call) ==
    LET bad == {j \in DOMAIN call.chain :
                  \/ call.chain[j].Scheme # "https"
                  \/ Hostname(call.chain[j]) \notin Range(call.trusted)
                  \/ j >= MaxRedirects}
    IN  IF bad = {} THEN 0 ELSE Min(bad)

\* C23: every request issued, initial or redirected, by the API lookup, the
\* download and the checksum fetch is https to a host in the trusted set of
\* its call; a call that meets a refused redirect returns an error and
\* issues no request to it or past it.
C23_EveryRequestTrusted ==
    \A call \in netCalls :
        /\ \A k \in DOMAIN call.requests :
             /\ call.requests[k].Scheme = "https"
             /\ Hostname(call.requests[k]) \in Range(call.trusted)
        /\ FirstRefused(call) # 0
             => /\ call.err # Nil
                /\ Len(call.requests) <= FirstRefused(call)

\* The raw URLs of the assets that are https on exactly a GitHub host, and
\* the names of the assets that are installers.
TrustedRawURLs ==
    {RawURL("https", "github.com", InstallerPath),
     <<"HTTPS", ":", "//", "github.com", ":", "443">> \o InstallerPath,
     RawURL("https", "github.com", <<>>),
     RawURL("https", "objects.githubusercontent.com", InstallerPath)}

InstallerNames == {NameGit64, NameGit64Upper, NameGit32}

Acceptable(asset) ==
    asset.Name \in InstallerNames /\ asset.BrowserDownloadURL \in TrustedRawURLs

\* C24: once the API answered, getGitDownloadURL returns the URL of an
\* installer asset of the release that is https on exactly a GitHub trusted
\* host, whatever unvalidated assets precede it, and an error and no URL when
\* the release has no such asset.
C24_OnlyValidatedURL ==
    (netOp = "git" /\ netApi = "decoded")
        => IF \E k \in DOMAIN netRelease : Acceptable(netRelease[k])
           THEN \E k \in DOMAIN netRelease :
                  /\ Acceptable(netRelease[k])
                  /\ netURL = netRelease[k].BrowserDownloadURL
           ELSE /\ netPc = "done"
                /\ netURL = <<>>
                /\ netRet.wraps = "could not find Git installer in latest release"

\* The first asset of the release is an installer whose URL fails the
\* validation, and the URL returned is that of the second.
C24_Witness ==
    /\ netOp = "git"
    /\ netApi = "decoded"
    /\ Len(netRelease) = 2
    /\ netRelease[1].Name = NameGit64
    /\ netRelease[1].BrowserDownloadURL \notin TrustedRawURLs
    /\ netURL = netRelease[2].BrowserDownloadURL
    /\ netURL # <<>>

----------------------------------------------------------------------------
(* Installer.emitProgress called from several goroutines on one Installer. *)

\* The goroutines that call emitProgress, and the calls each of them makes.
EmitCallers == 3

EventsPerCaller == 2

\* The event of the n-th call of caller c.
Event(c, n) == <<c, n>>

EmitEvents == (1..EmitCallers) \X (1..EventsPerCaller)

EmitInit ==
    /\ PollIdle
    /\ GateIdle
    /\ SumsIdle
    /\ FileIdle
    /\ VerIdle
    /\ InstIdle
    /\ DlIdle
    /\ AddIdle
    /\ VfyIdle
    /\ ArchIdle
    /\ ChkIdle
    /\ PathIdle
    /\ NetIdle
    /\ AppIdle
    /\ emPc = [c \in 1..EmitCallers |-> "call"]
    /\ emDone = [c \in 1..EmitCallers |-> 0]
    /\ emMu = 0
    /\ emSink \in {"nil", "set"}
    /\ emDelivered = [e \in EmitEvents |-> 0]

\* A Lock that never waits.
MuLockNoWait(c) == TRUE

\* i.mu.Lock() returns to caller c only while no one holds the mutex.
MuLock(c) == emMu = 0

\* i.mu.Lock(), the test of i.onProgress, and the call of the sink.
EmitLock(c) ==
    /\ emPc[c] = "call"
    /\ MuLock(c)
    /\ emMu' = c
    /\ IF emSink # "nil"
       THEN /\ emPc' = [emPc EXCEPT ![c] = "sink"]
            /\ emDelivered' = [emDelivered EXCEPT ![Event(c, emDone[c] + 1)] = @ + 1]
       ELSE /\ emPc' = [emPc EXCEPT ![c] = "unlock"]
            /\ UNCHANGED emDelivered
    /\ UNCHANGED <<emDone, emSink>>
    /\ UNCHANGED emitOthers

\* i.onProgress(...) returns.
EmitSinkReturns(c) ==
    /\ emPc[c] = "sink"
    /\ emPc' = [emPc EXCEPT ![c] = "unlock"]
    /\ UNCHANGED <<emDone, emMu, emSink, emDelivered>>
    /\ UNCHANGED emitOthers

\* The deferred i.mu.Unlock(); the caller then makes its next call.
EmitUnlock(c) ==
    /\ emPc[c] = "unlock"
    /\ emMu' = 0
    /\ emDone' = [emDone EXCEPT ![c] = @ + 1]
    /\ emPc' = [emPc EXCEPT ![c] = IF emDone[c] + 1 < EventsPerCaller
                                   THEN "call" ELSE "done"]
    /\ UNCHANGED <<emSink, emDelivered>>
    /\ UNCHANGED emitOthers

EmitNext ==
    \/ \E c \in 1..EmitCallers : EmitLock(c)
    \/ \E c \in 1..EmitCallers : EmitSinkReturns(c)
    \/ \E c \in 1..EmitCallers : EmitUnlock(c)

SpecEmit == EmitInit /\ [][EmitNext]_vars

\* The emitProgress calls of caller c that reached the sink or passed it.
Emitted(c) == emDone[c] + (IF emPc[c] \in {"sink", "unlock"} THEN 1 ELSE 0)

\* C25: at most one caller is inside the sink at a time, and the sink has
\* received every event emitted so far exactly once and no other event.
C25_SinkSerialized ==
    /\ Cardinality({c \in DOMAIN emPc : emPc[c] = "sink"}) <= 1
    /\ emSink = "set"
         => \A c \in DOMAIN emPc : \A n \in 1..EventsPerCaller :
              emDelivered[Event(c, n)] = IF n <= Emitted(c) THEN 1 ELSE 0

\* One caller is inside the sink for its second event while the others stand
\* before the Lock, one of them with an event already delivered.
C25_Witness ==
    /\ emSink = "set"
    /\ \E c \in DOMAIN emPc :
         /\ emPc[c] = "sink"
         /\ emDone[c] = 1
         /\ \A d \in DOMAIN emPc \ {c} : emPc[d] = "call"
         /\ \E d \in DOMAIN emPc \ {c} : emDone[d] = 1

----------------------------------------------------------------------------
(* The install methods bound to the frontend, each run in a goroutine of   *)
(* its own on an Installer of its own, and pathutil.AddToPath.             *)

\* The calls of the frontend that are in progress together.
Invocations == 2

ExposedOps == {"InstallAll", "InstallNodeJS", "InstallGit"}

\* The directories the installers of a method add to the PATH, in order.
DirsOf(op) ==
    IF op = "InstallAll" THEN <<"nodejs", "Git">>
    ELSE IF op = "InstallNodeJS" THEN <<"nodejs">>
    ELSE <<"Git">>

\* pathContains(currentPath, dir)
pathContains(currentPath, dir) == \E k \in DOMAIN currentPath : currentPath[k] = dir

PathInit ==
    /\ PollIdle
    /\ GateIdle
    /\ SumsIdle
    /\ FileIdle
    /\ VerIdle
    /\ InstIdle
    /\ DlIdle
    /\ AddIdle
    /\ VfyIdle
    /\ ArchIdle
    /\ ChkIdle
    /\ NetIdle
    /\ EmitIdle
    /\ AppIdle
    /\ paOp \in [1..Invocations -> ExposedOps]
    /\ paPc = [i \in 1..Invocations |-> "call"]
    /\ paQueue = [i \in 1..Invocations |-> DirsOf(paOp[i])]
    /\ paRead = [i \in 1..Invocations |-> <<>>]
    /\ pathStore \in {<<>>, <<"System32">>}

\* What is left to invocation i once it is through with the head of its queue.
PathAdvance(i) ==
    /\ paQueue' = [paQueue EXCEPT ![i] = Tail(@)]
    /\ paPc' = [paPc EXCEPT ![i] = IF Len(paQueue[i]) > 1 THEN "call" ELSE "done"]

\* An installer returns before AddToPath: the tool was installed already, or
\* the installation failed.
PathInstallerReturns(i) ==
    /\ paPc[i] = "call"
    /\ PathAdvance(i)
    /\ UNCHANGED <<paOp, paRead, pathStore>>
    /\ UNCHANGED pathOthers

\* AddToPath: GetUserPath() and the test of pathContains.
PathRead(i) ==
    /\ paPc[i] = "call"
    /\ IF pathContains(pathStore, Head(paQueue[i]))
       THEN /\ PathAdvance(i)
            /\ UNCHANGED paRead
       ELSE /\ paPc' = [paPc EXCEPT ![i] = "write"]
            /\ paRead' = [paRead EXCEPT ![i] = pathStore]
            /\ UNCHANGED paQueue
    /\ UNCHANGED <<paOp, pathStore>>
    /\ UNCHANGED pathOthers

\* AddToPath: key.SetExpandStringValue("Path", currentPath + ";" + dir).
PathWrite(i) ==
    /\ paPc[i] = "write"
    /\ pathStore' = Append(paRead[i], Head(paQueue[i]))
    /\ PathAdvance(i)
    /\ UNCHANGED <<paOp, paRead>>
    /\ UNCHANGED pathOthers

PathNext ==
    \/ \E i \in 1..Invocations : PathInstallerReturns(i)
    \/ \E i \in 1..Invocations : PathRead(i)
    \/ \E i \in 1..Invocations : PathWrite(i)

SpecPath == PathInit /\ [][PathNext]_vars

\* C26: at most one invocation at a time is inside the read-modify-write of
\* AddToPath, whichever methods the frontend called.
C26_OneMutatorAtATime ==
    Cardinality({i \in DOMAIN paPc : paPc[i] = "write"}) <= 1

----------------------------------------------------------------------------
(* Installer.CheckUpdate *)

\* The versions the commands print, and the white space around them.
PrintedVersions == {<<"1", ".", "9">>, <<"2", ".", "0">>, <<"2", ".", "0", ".", "0">>, <<"2", ".", "0", " ", "(", "C", "l", "a", "u", "d", "e", " ", "C", "o", "d", "e", ")">>}

Leads == {<<>>, <<" ">>}

Trails == {<<>>, <<"\n">>, <<"\r", "\n">>}

Outputs == [lead : Leads, version : PrintedVersions, trail : Trails]

\* The bytes of an output.
Bytes(output) == output.lead \o output.version \o output.trail

CheckFailures == {"none", "findClaude", "version", "findNpm", "view"}

ChkInit ==
    /\ PollIdle
    /\ GateIdle
    /\ SumsIdle
    /\ FileIdle
    /\ VerIdle
    /\ InstIdle
    /\ DlIdle
    /\ AddIdle
    /\ VfyIdle
    /\ ArchIdle
    /\ NetIdle
    /\ EmitIdle
    /\ PathIdle
    /\ AppIdle
    /\ chkPc = "call"
    /\ chkFail \in CheckFailures
    /\ chkInstalled \in Outputs
    /\ chkLatest \in Outputs
    /\ chkRet = [info |-> NoInfo, err |-> NoReturn]

\* An ordering of versions in place of the inequality of strings.
IsOlder(currentVersion, latestVersion) ==
    compareVersions(currentVersion, latestVersion) < 0

\* info.CurrentVersion != info.LatestVersion
VersionsDiffer(currentVersion, latestVersion) == currentVersion # latestVersion

\* runCommand: the output with its surrounding white space removed.
runCommand(output) == TrimSpace(Bytes(output))

\* CheckUpdate() when fail fails, and against the outputs of the commands.
CheckUpdate(fail, installed, latest) ==
    LET currentVersion == TrimSpace(runCommand(installed))
        latestVersion  == TrimSpace(runCommand(latest))
    IN  IF fail = "findClaude"
        THEN [info |-> NoInfo,
              err |-> Errorf(<<"Claude Code is not installed: ", "claude not found">>,
                             "claude not found")]
        ELSE IF fail = "version"
        THEN [info |-> NoInfo,
              err |-> Errorf(<<"Claude Code is not installed: ",
                               "failed to get Claude Code version: ", "exit status 1">>,
                             "failed to get Claude Code version: exit status 1")]
        ELSE IF fail = "findNpm"
        THEN [info |-> NoInfo,
              err |-> Errorf(<<"npm is not available: ", "npm not found">>, "npm not found")]
        ELSE IF fail = "view"
        THEN [info |-> NoInfo,
              err |-> Errorf(<<"failed to check latest version: ", "exit status 1">>,
                             "exit status 1")]
        ELSE [info |-> [isNil |-> FALSE,
                        Available |-> VersionsDiffer(currentVersion, latestVersion),
                        CurrentVersion |-> currentVersion,
                        LatestVersion |-> latestVersion],
              err |-> Nil]

ChkCall ==
    /\ chkPc = "call"
    /\ chkPc' = "done"
    /\ chkRet' = CheckUpdate(chkFail, chkInstalled, chkLatest)
    /\ UNCHANGED <<chkFail, chkInstalled, chkLatest>>
    /\ UNCHANGED chkOthers

ChkNext == ChkCall

SpecChk == ChkInit /\ [][ChkNext]_vars

----------------------------------------------------------------------------
(* The artifact of a direct download by architecture                        *)

GOARCHs == {"amd64", "386", "arm64"}

\* arch of installNodeViaMSI
nodeArch(goarch) ==
    IF goarch = "386" THEN "x86" ELSE IF goarch = "arm64" THEN "arm64" ELSE "x64"

nodeLTSVersion == "22.13.1"

\* msiFilename, by GOARCH
msiFilenameOn(goarch) == "node-v" \o nodeLTSVersion \o "-" \o nodeArch(goarch) \o ".msi"

\* arch of getGitDownloadURL
gitArch(goarch) == IF goarch = "386" THEN <<"3", "2", "-", "b", "i", "t">> ELSE Arch

\* The two loops of getGitDownloadURL over assets whose URLs all pass the
\* validation: the asset returned.
SelectAsset(assets, arch) ==
    LET first == {k \in DOMAIN assets : IsInstallerName(ToLower(assets[k].Name), TRUE, arch)}
        second == {k \in DOMAIN assets : IsInstallerName(ToLower(assets[k].Name), FALSE, arch)}
    IN  IF first # {}
        THEN [done |-> TRUE, found |-> TRUE, name |-> assets[Min(first)].Name]
        ELSE IF second # {}
        THEN [done |-> TRUE, found |-> TRUE, name |-> assets[Min(second)].Name]
        ELSE [done |-> TRUE, found |-> FALSE, name |-> <<>>]

\* The installers Git for Windows publishes, and what else a release lists.
NameGitArm64 == <<"G", "i", "t", "-", "a", "r", "m", "6", "4", ".", "e", "x", "e">>

ArchAssets ==
    {Asset(name, RawURL("https", "github.com", InstallerPath)) :
        name \in {NameGit64, NameGit32, NameGitArm64, NamePortable}}

ArchReleases == UNION {[1..n -> ArchAssets] : n \in 0..MaxAssets}

ArchInit ==
    /\ PollIdle
    /\ GateIdle
    /\ SumsIdle
    /\ FileIdle
    /\ VerIdle
    /\ InstIdle
    /\ DlIdle
    /\ AddIdle
    /\ VfyIdle
    /\ NetIdle
    /\ EmitIdle
    /\ PathIdle
    /\ ChkIdle
    /\ AppIdle
    /\ archGOARCH \in GOARCHs
    /\ archRelease \in ArchReleases
    /\ archMsi = ""
    /\ archGit = NoPick

\* installNodeViaMSI builds the name of the MSI.
ArchNodeMsi ==
    /\ archMsi = ""
    /\ archMsi' = msiFilenameOn(archGOARCH)
    /\ UNCHANGED <<archGOARCH, archRelease, archGit>>
    /\ UNCHANGED archOthers

\* getGitDownloadURL selects the asset.
ArchGitAsset ==
    /\ ~archGit.done
    /\ archGit' = SelectAsset(archRelease, gitArch(archGOARCH))
    /\ UNCHANGED <<archGOARCH, archRelease, archMsi>>
    /\ UNCHANGED archOthers

ArchNext == ArchNodeMsi \/ ArchGitAsset

SpecArch == ArchInit /\ [][ArchNext]_vars

\* The artifacts published for each architecture.
PublishedMsi(goarch) ==
    IF goarch = "386" THEN "node-v22.13.1-x86.msi"
    ELSE IF goarch = "arm64" THEN "node-v22.13.1-arm64.msi"
    ELSE "node-v22.13.1-x64.msi"

PublishedGit(goarch) ==
    IF goarch = "386" THEN NameGit32
    ELSE IF goarch = "arm64" THEN NameGitArm64
    ELSE NameGit64

\* C34: the MSI named is the one published for the detected architecture,
\* and when the release lists the Git installer of the detected
\* architecture, that installer is the asset selected.
C34_ArtifactMatchesArchitecture ==
    /\ archMsi # "" => archMsi = PublishedMsi(archGOARCH)
    /\ (/\ archGit.done
        /\ \E k \in DOMAIN archRelease : archRelease[k].Name = PublishedGit(archGOARCH))
            => archGit.found /\ archGit.name = PublishedGit(archGOARCH)

----------------------------------------------------------------------------
(* verifyExecutable                                                         *)

\* The number of fallback paths a caller passes.
MaxExtra == 2

\* extraPaths of n entries
ExtraPaths(n) == [k \in 1..n |-> "fallback " \o Itoa(k)]

\* What cmd.Output() gives: an error, or the bytes printed.
RunOutcomes ==
    {[failed |-> TRUE, output |-> <<>>],
     [failed |-> FALSE, output |-> <<>>],
     [failed |-> FALSE, output |-> <<" ", "\n">>],
     [failed |-> FALSE, output |-> <<"v", "1", "\n">>]}

VfyInit ==
    /\ PollIdle
    /\ GateIdle
    /\ SumsIdle
    /\ FileIdle
    /\ VerIdle
    /\ InstIdle
    /\ DlIdle
    /\ AddIdle
    /\ NetIdle
    /\ EmitIdle
    /\ PathIdle
    /\ ChkIdle
    /\ ArchIdle
    /\ AppIdle
    /\ vfyGOOS \in {"windows", "linux"}
    /\ \E n \in 0..MaxExtra : vfyExtra = ExtraPaths(n)
    /\ vfyRuns \in [1..(1 + MaxExtra) -> RunOutcomes]
    /\ vfyPc = "call"
    /\ vfyPaths = <<>>
    /\ vfyTried = <<>>
    /\ vfyEvents = <<>>
    /\ vfyRet = NoReturn

\* A list of candidates that takes the fallback paths on every platform.
pathsAnyGOOS(name, goos, extraPaths) == <<name>> \o extraPaths

\* paths
paths(name, goos, extraPaths) ==
    <<name>> \o (IF goos = "windows" THEN extraPaths ELSE <<>>)

\* err == nil and version != "" for the output of one candidate
Accepted(run) == ~run.failed /\ TrimSpace(run.output) # <<>>

\* verifyExecutable("node", "nodejs", "--version", extraPaths) builds paths.
VfyCall ==
    /\ vfyPc = "call"
    /\ vfyPaths' = paths("node", vfyGOOS, vfyExtra)
    /\ vfyPc' = "loop"
    /\ UNCHANGED <<vfyGOOS, vfyExtra, vfyRuns, vfyTried, vfyEvents, vfyRet>>
    /\ UNCHANGED vfyOthers

\* One pass of the loop: the next of paths is executed.
VfyRun ==
    /\ vfyPc = "loop"
    /\ Len(vfyTried) < Len(vfyPaths)
    /\ LET k == Len(vfyTried) + 1
       IN  /\ vfyTried' = Append(vfyTried, vfyPaths[k])
           /\ IF Accepted(vfyRuns[k])
              THEN /\ vfyEvents' = Emit(vfyEvents, "nodejs", "installing",
                                        <<"Verified ", TrimSpace(vfyRuns[k].output)>>, 95)
                   /\ vfyRet' = Nil
                   /\ vfyPc' = "done"
              ELSE UNCHANGED <<vfyEvents, vfyRet, vfyPc>>
    /\ UNCHANGED <<vfyGOOS, vfyExtra, vfyRuns, vfyPaths>>
    /\ UNCHANGED vfyOthers

\* The loop ended without returning.
VfyNotFound ==
    /\ vfyPc = "loop"
    /\ Len(vfyTried) = Len(vfyPaths)
    /\ vfyRet' = Errorf(<<"node", " command not found after installation (tried: ",
                          vfyPaths, ")">>, "")
    /\ vfyPc' = "done"
    /\ UNCHANGED <<vfyGOOS, vfyExtra, vfyRuns, vfyPaths, vfyTried, vfyEvents>>
    /\ UNCHANGED vfyOthers

VfyNext == VfyCall \/ VfyRun \/ VfyNotFound

SpecVfy == VfyInit /\ [][VfyNext]_vars

\* What verifyExecutable did against a list of candidates: it executed them
\* in order from the first, accepted the first that ran without error and
\* printed more than white space, emitting one "installing" event at 95
\* with the version, and returned the not-found error, without an event,
\* only when none of the list was accepted and all of it was executed.
VerifiedAgainst(candidates) ==
    /\ Len(vfyTried) <= Len(candidates)
    /\ vfyTried = SubSeq(candidates, 1, Len(vfyTried))
    /\ \A k \in 1..(Len(vfyTried) - 1) : ~Accepted(vfyRuns[k])
    /\ vfyPc = "done" =>
          IF vfyRet = Nil
          THEN /\ vfyTried # <<>>
               /\ Accepted(vfyRuns[Len(vfyTried)])
               /\ vfyEvents = <<[step |-> "nodejs", status |-> "installing",
                                 message |-> <<"Verified ",
                                               TrimSpace(vfyRuns[Len(vfyTried)].output)>>,
                                 percentage |-> 95]>>
          ELSE /\ vfyTried = candidates
               /\ \A k \in DOMAIN candidates : ~Accepted(vfyRuns[k])
               /\ vfyEvents = <<>>
    /\ vfyPc # "done" => vfyEvents = <<>>

\* C35 as stated: the candidates are the bare name and then every fallback
\* path, in order; the first that succeeds with output is accepted with an
\* "installing" event at 95, and the not-found error is returned only after
\* all of them were tried.
C35_AllFallbacksTried == VerifiedAgainst(<<"node">> \o vfyExtra)

\* C35, amended: the fallback paths are candidates on Windows only; on any
\* other platform the bare name is the one candidate.
C35_FallbacksOnWindows ==
    VerifiedAgainst(IF vfyGOOS = "windows" THEN <<"node">> \o vfyExtra ELSE <<"node">>)

\* On Windows the bare name failed, the first fallback printed nothing, and
\* the second fallback was accepted.
C35_Witness ==
    /\ vfyPc = "done"
    /\ vfyGOOS = "windows"
    /\ vfyRet = Nil
    /\ Len(vfyTried) = 3
    /\ vfyRuns[1].failed
    /\ ~vfyRuns[2].failed
    /\ Len(vfyEvents) = 1

----------------------------------------------------------------------------
(* AddToPath                                                                *)

\* The calls of AddToPath with one dir.
MaxCalls == 2

\* strings.TrimRight(s, cutset)
TrimRight(s, cutset) ==
    LET kept == {k \in DOMAIN s : s[k] \notin cutset}
    IN  IF kept = {} THEN <<>> ELSE SubSeq(s, 1, Max(kept))

Slashes == {"\\", "/"}

\* pathContains(pathEnv, dir) on the text of the PATH
pathContainsIn(pathEnv, dir) ==
    LET entries == Split(pathEnv, ";")
    IN  \E n \in DOMAIN entries :
            EqualFold(TrimRight(TrimSpace(entries[n]), Slashes), TrimRight(dir, Slashes))

\* newPath
newPath(currentPath, dir) ==
    IF currentPath = <<>> THEN dir ELSE currentPath \o <<";">> \o dir

\* AddToPath(dir) against the stored value; fail is the registry or
\* messaging call that fails, if one does: the value stored afterwards and
\* the error.
AddToPath(currentPath, dir, fail) ==
    IF fail = "read"
    THEN [path |-> currentPath,
          err |-> Errorf(<<"failed to get current PATH: ", "access denied">>, "access denied")]
    ELSE IF pathContainsIn(currentPath, dir)
    THEN [path |-> currentPath, err |-> Nil]
    ELSE IF fail = "write"
    THEN [path |-> currentPath,
          err |-> Errorf(<<"failed to write Path value: ", "access denied">>, "access denied")]
    ELSE [path |-> newPath(currentPath, dir),
          err |-> IF fail = "broadcast"
                  THEN Errorf(<<"SendMessageTimeout failed: ", "timeout">>, "")
                  ELSE Nil]

\* Values of the user PATH, and directories to add.
PathValues ==
    {<<>>,
     <<"a">>,
     <<"A", "\\">>,
     <<"b", ";", " ", "a", "/", " ">>,
     <<"b">>,
     <<"b", ";", "c">>}

Dirs ==
    {<<"a">>, <<"A">>, <<"a", "\\">>, <<"c">>, <<" ", "a">>, <<"a", " ">>,
     <<"a", ";", "c">>, <<>>}

AddFailures == {"none", "read", "write", "broadcast"}

AddInit ==
    /\ PollIdle
    /\ GateIdle
    /\ SumsIdle
    /\ FileIdle
    /\ VerIdle
    /\ InstIdle
    /\ DlIdle
    /\ NetIdle
    /\ EmitIdle
    /\ PathIdle
    /\ ChkIdle
    /\ ArchIdle
    /\ VfyIdle
    /\ AppIdle
    /\ addStore \in PathValues
    /\ addDir \in Dirs
    /\ addCalls = <<>>

\* One call AddToPath(addDir).
AddCall ==
    /\ Len(addCalls) < MaxCalls
    /\ \E fail \in AddFailures :
         LET r == AddToPath(addStore, addDir, fail)
         IN  /\ addStore' = r.path
             /\ addCalls' = Append(addCalls, [before |-> addStore, after |-> r.path,
                                              fail |-> fail, err |-> r.err])
    /\ UNCHANGED addDir
    /\ UNCHANGED addOthers

AddNext == AddCall

SpecAdd == AddInit /\ [][AddNext]_vars

\* dir is an entry of the PATH, compared without case and without the
\* trailing slashes, and without the spaces around the entry.
Present(pathEnv, dir) ==
    \E n \in DOMAIN Split(pathEnv, ";") :
        EqualFold(TrimRight(TrimSpace(Split(pathEnv, ";")[n]), Slashes),
                  TrimRight(dir, Slashes))

----------------------------------------------------------------------------
(* App.InstallAll *)

\* The installers in the order InstallAll calls them.
AppSteps == <<"nodejs", "git", "claudecode">>

AppFailPrefix(step) ==
    IF step = "nodejs" THEN "Node.js installation failed: "
    ELSE IF step = "git" THEN "Git installation failed: "
    ELSE "Claude Code installation failed: "

\* An InstallAll that goes on to the next installer whatever the last one
\* returned.
AppAfterStepContinue(k, err) ==
    IF k < Len(AppSteps) THEN "next" ELSE "complete"

\* An InstallAll that reports completion once Git is installed.
AppAfterStepEarly(k, err) ==
    IF err # Nil THEN "fail"
    ELSE IF k < Len(AppSteps) - 1 THEN "next"
    ELSE "complete"

\* What InstallAll does when installer k of its order returned err.
AppAfterStep(k, err) ==
    IF err # Nil THEN "fail"
    ELSE IF k < Len(AppSteps) THEN "next"
    ELSE "complete"

AppInit ==
    /\ PollIdle
    /\ GateIdle
    /\ SumsIdle
    /\ FileIdle
    /\ VerIdle
    /\ DlIdle
    /\ AddIdle
    /\ VfyIdle
    /\ ArchIdle
    /\ ChkIdle
    /\ PathIdle
    /\ EmitIdle
    /\ NetIdle
    /\ appPc = "start"
    /\ appStep = 1
    /\ appRet = NoReturn
    /\ appStarted = <<>>
    /\ appResults = <<>>
    /\ instOp = "idle"
    /\ instPc = "idle"
    /\ instRet = NoReturn
    /\ instCtx \in {"none", "canceled"}
    /\ events = <<>>
    /\ onPath \in SUBSET {"node", "git", "claude", "winget", "npm"}
    /\ httpLog = <<>>
    /\ execLog = <<>>
    /\ pathLog = <<>>
    /\ dlAttempt = 0
    /\ claudeAttempt = 0
    /\ dest = NoDownload
    /\ hist = NoHistory

\* InstallAll announces the next installer and calls it; the logs are those
\* of the call in progress.
AppStartStep ==
    /\ appPc = "start"
    /\ appPc' = "wait"
    /\ appStarted' = Append(appStarted, AppSteps[appStep])
    /\ events' = Emit(events, AppSteps[appStep], "installing", "Starting installation", 0)
    /\ instOp' = AppSteps[appStep]
    /\ instPc' = "start"
    /\ instRet' = NoReturn
    /\ httpLog' = <<>>
    /\ execLog' = <<>>
    /\ pathLog' = <<>>
    /\ dlAttempt' = 0
    /\ claudeAttempt' = 0
    /\ dest' = NoDownload
    /\ hist' = NoHistory
    /\ UNCHANGED <<appStep, appRet, appResults, instCtx, onPath>>
    /\ UNCHANGED appOthers

\* The installer returned: InstallAll reports its error and returns it
\* wrapped, or goes on to the next installer, or reports completion.
AppStepReturned ==
    /\ appPc = "wait"
    /\ instPc = "done"
    /\ LET step == AppSteps[appStep]
           after == AppAfterStep(appStep, instRet)
       IN  /\ appResults' = Append(appResults, instRet)
           /\ appPc' = IF after = "next" THEN "start" ELSE "done"
           /\ appStep' = IF after = "next" THEN appStep + 1 ELSE appStep
           /\ appRet' = IF after = "fail" THEN Wrap(AppFailPrefix(step), instRet)
                        ELSE IF after = "complete" THEN Nil
                        ELSE appRet
           /\ events' = IF after = "fail"
                        THEN Emit(events, step, "error", Error(instRet), 0)
                        ELSE IF after = "complete"
                        THEN Emit(events, "complete", "completed",
                                  "All installations completed successfully!", 100)
                        ELSE events
    /\ UNCHANGED <<appStarted, instOp, instPc, instRet, instCtx, onPath, httpLog,
                   execLog, pathLog, dlAttempt, claudeAttempt, dest, hist>>
    /\ UNCHANGED appOthers

AppNext ==
    \/ AppStartStep
    \/ AppStepReturned
    \/ InstCheckExisting
    \/ InstWinget
    \/ InstResolveURL
    \/ InstTempDir
    \/ InstDownloadAttempt
    \/ InstBackoff
    \/ InstChecksum
    \/ InstRunInstaller
    \/ InstPoll
    \/ InstFinish
    \/ InstFindNpm
    \/ InstNpmInstall
    \/ InstClaudeLook
    \/ InstClaudeSleep
    \/ InstClaudeVerify
    \/ InstCancel

SpecAll == AppInit /\ [][AppNext]_vars

\* C17: InstallAll starts the installers in the order Node.js, Git, Claude
\* Code, one at a time; each is started only after all the earlier ones
\* returned nil; and at the first error it returns that error, wrapped,
\* and starts no other installer.
C17_SequentialFailFast ==
    /\ Len(appStarted) <= Len(AppSteps)
    /\ \A k \in DOMAIN appStarted : appStarted[k] = AppSteps[k]
    /\ Len(appResults) = IF appPc = "wait" THEN Len(appStarted) - 1
                         ELSE Len(appStarted)
    /\ appPc = "wait" => instOp = appStarted[Len(appStarted)]
    /\ \A k \in DOMAIN appStarted : \A j \in 1..(k - 1) : appResults[j] = Nil
    /\ \A k \in DOMAIN appResults :
         appResults[k] # Nil
             => /\ appPc = "done"
                /\ Len(appStarted) = k
                /\ appRet = Wrap(AppFailPrefix(AppSteps[k]), appResults[k])

\* Node.js was installed, the Git installation failed, and Claude Code was
\* never started.
C17_Witness ==
    /\ appPc = "done"
    /\ appStarted = <<"nodejs", "git">>
    /\ appResults[1] = Nil
    /\ appResults[2] # Nil
    /\ appRet.wraps = Error(appResults[2])

IsCompleteEvent(e) ==
    e.step = "complete" /\ e.status = "completed" /\ e.percentage = 100

\* C18: InstallAll emits the event 'complete'/'completed'/100 if and only
\* if all three installers returned nil, and the event is then the last
\* one of the run.
C18_CompleteIffAllSucceeded ==
    /\ (\E k \in DOMAIN events : events[k].step = "complete")
         <=> (appPc = "done" /\ Len(appResults) = 3
                /\ \A k \in DOMAIN appResults : appResults[k] = Nil)
    /\ \A k \in DOMAIN events :
         events[k].step = "complete"
             => /\ IsCompleteEvent(events[k])
                /\ k = Len(events)
                /\ appRet = Nil

\* All three were installed, Node.js by direct download after winget
\* failed, and the completion event closes the run.
C18_Witness ==
    /\ appPc = "done"
    /\ appRet = Nil
    /\ IsCompleteEvent(events[Len(events)])
    /\ \E k \in DOMAIN events :
         events[k].step = "nodejs" /\ events[k].percentage = 70
    /\ \E k \in DOMAIN events :
         events[k].step = "claudecode" /\ events[k].percentage = 95

====
